---- MODULE Spec2Model ----
(***************************************************************************)
(* Recall API: the indexing orchestrator (services/api/indexer.py), the    *)
(* keyword index (services/api/fts_index.py) and the asynchronous job      *)
(* controller (services/api/main.py), as one state machine.                *)
(*                                                                         *)
(* The server is a single asyncio event loop: a coroutine runs without     *)
(* interruption from one suspension point (an await that really suspends)  *)
(* to the next.  Every action below is such a segment.                     *)
(***************************************************************************)
EXTENDS Integers, Naturals, Sequences, FiniteSets, TLC

(* ------------------------------ bounds -------------------------------- *)
\* POST /index/start requests accepted in one behaviour
MaxJobs == 2
\* POST /index requests started in one behaviour
MaxRuns == 2
\* filesystem changes (create / edit / touch / delete) in one behaviour
MaxFsOps == 2
\* POST /index/cancel requests accepted in one behaviour
MaxCancels == 2
\* failing requests to the embedding host or the keyword store in one behaviour
MaxFaults == 1
MaxListLen == 3
MaxRefDays == 14
MaxWords == 3
MaxPages == 3

(* ------------------------------ the corpus ---------------------------- *)
\* One vault ("work"): two markdown files under the vault root, one PDF under
\* the PDF root.  rglob enumerates them in this order.
MdPaths == {"m1.md", "m2.md"}
PdfPaths == {"p1.pdf"}
Paths == MdPaths \cup PdfPaths
MdOrder == <<"m1.md", "m2.md">>
PdfOrder == <<"p1.pdf">>

\* File contents.  "short" is a markdown text of fewer than 50 characters,
\* "a" a text that chunks into two chunks, "b" a text with frontmatter that
\* chunks into one chunk, "pa" the bytes of a PDF with two chunks of pages.
Absent == "absent"
MdContents == {"short", "a", "b"}
PdfContents == {"pa"}

\* hashlib.md5(x).hexdigest(): a digest per text, distinct texts having
\* distinct digests on this corpus.
MD5(text) ==
  CASE text = "a" -> "md5_a"
    [] text = "b" -> "md5_b"
    [] text = "b_body" -> "md5_b_body"
    [] text = "short" -> "md5_short"
    [] text = "pa" -> "md5_pa"
    [] text = "pa_text" -> "md5_pa_text"
    [] OTHER -> "md5_other"

\* frontmatter.loads(content).content: the text after the frontmatter block.
Body(content) == IF content = "b" THEN "b_body" ELSE content

\* "\n\n".join(page texts) of a PDF
PdfFullText(content) == IF content = "pa" THEN "pa_text" ELSE content

\* len(content.strip()) < 50
TooShort(content) == content = "short"

\* _chunk_document_sync / _chunk_pdf_pages_sync: the chunk texts of a document,
\* chunk_index being the position minus one.
Chunks(content) ==
  CASE content = "a" -> <<"a#0", "a#1">>
    [] content = "b" -> <<"b#0">>
    [] content = "pa" -> <<"pa#0", "pa#1">>
    [] OTHER -> <<>>

NoHash == "none"

(* ------------------------------ state --------------------------------- *)
VARIABLES
  disk,              \* path -> [content, mtime]
  fsOps,             \* filesystem changes so far
  clock,             \* the filesystem's time, in half seconds
  table,             \* the vault's LanceDB table: sequence of chunk records
  fts,               \* fts_documents: path -> file_hash of the row, or NoHash
  embedding_cache,   \* Indexer.embedding_cache: the texts with a cached vector
  cancel_requested,  \* Indexer._cancel_requested
  runs,              \* POST /index handler -> state of its reindex coroutine
  runsStarted,       \* POST /index requests started so far
  jobs,              \* main.jobs: job id -> job record
  tasks,             \* job id -> state of its _run_indexing_job coroutine
  cancels,           \* accepted cancel requests so far
  faults,            \* failed embedding / keyword-store requests so far
  fts_index,         \* is Searcher.fts_index an FTSIndex (TRUE) or None (FALSE)
  search,            \* the hybrid_search call in progress, if any
  pdf_enabled,       \* settings.pdf_enabled and PDF_ENABLED (PyMuPDF imported)
  calc               \* the call of a pure function: its arguments and result

vars == <<disk, fsOps, clock, table, fts, embedding_cache, cancel_requested,
          runs, runsStarted, jobs, tasks, cancels, faults, fts_index, search,
          pdf_enabled, calc>>

indexVars ==
  <<disk, fsOps, clock, table, fts, embedding_cache, runs, runsStarted,
    faults>>
jobVars == <<jobs, tasks>>
searchVars == <<fts_index, search, pdf_enabled, calc>>

(* ------------------------------ jobs ---------------------------------- *)
\* JobStatus
PENDING == "pending"
RUNNING == "running"
COMPLETED == "completed"
FAILED == "failed"

NoError == "none"
NoCount == "none"

\* settings.gpu_ollama_enabled
gpu_ollama_enabled == TRUE

\* The methods class Indexer defines.
IndexerMethods ==
  {"request_cancel", "init_tables", "get_embedding", "chunk_document",
   "extract_metadata", "is_excluded", "read_file", "index_pdf_file",
   "index_file", "list_markdown_files", "list_pdf_files", "full_reindex",
   "incremental_index"}

\* The keyword parameters full_reindex and incremental_index accept.
ReindexKeywords == {"vault"}

\* jobs[job_id] = {...} of start_indexing
NewJob(full, callback_url, use_gpu) ==
  [status |-> PENDING, indexed |-> NoCount, error |-> NoError,
   full |-> full, callback_url |-> callback_url, use_gpu |-> use_gpu]

\* A body that forgets to mark the job running.
MarkRunningForgotten(job) == job

\* jobs[job_id]["status"] = JobStatus.RUNNING
MarkRunning(job) == [job EXCEPT !.status = RUNNING]

\* the except branch: jobs[job_id].update({"status": FAILED, "error": str(e)})
MarkFailed(job, err) == [job EXCEPT !.status = FAILED, !.error = err]

\* The statuses assigned to the job so far, in order.
Logged(task, job) == [task EXCEPT !.log = Append(@, job.status)]

\* The keyword arguments of the call at main.py:604/606.
JobCallKeywords == {"vault", "progress_callback"}

\* What calling indexer.full_reindex / incremental_index with those keywords
\* raises: Python rejects a keyword the function does not declare, at the call,
\* before the coroutine is created.
CallError ==
  IF JobCallKeywords \subseteq ReindexKeywords THEN NoError ELSE "TypeError"

\* What indexer.set_gpu_ollama_url(...) raises.
RetargetError ==
  IF "set_gpu_ollama_url" \in IndexerMethods THEN NoError ELSE "AttributeError"

\* Is the statement at this position of _run_indexing_job inside the try block
\* (lines 602-654)?  The GPU wake / retarget step (lines 555-575) is not.
InTry(step) == step = "index"

\* An exception raised at `step` of the job body: inside the try block the
\* except branch marks the job failed and goes on to the failure callback;
\* outside it the exception leaves the coroutine and the record is not touched.
Raise(job, task, step, err) ==
  IF InTry(step)
  THEN LET failed == MarkFailed(job, err) IN
       [job |-> failed,
        task |-> [Logged(task, failed) EXCEPT
                    !.raised = TRUE,
                    !.pc = IF job.callback_url THEN "callback" ELSE "done"]]
  ELSE [job |-> job, task |-> [task EXCEPT !.raised = TRUE, !.pc = "crashed"]]

\* POST /index/start: create the job record and schedule the background task.
StartIndexing(full, callback_url, use_gpu) ==
  /\ Cardinality(DOMAIN jobs) < MaxJobs
  /\ LET job_id == Cardinality(DOMAIN jobs) + 1
         job == NewJob(full, callback_url, use_gpu) IN
     /\ jobs' = jobs @@ (job_id :> job)
     /\ tasks' = tasks @@ (job_id :>
          [pc |-> "scheduled", log |-> <<job.status>>, raised |-> FALSE,
           posts |-> 0, post_ok |-> FALSE, cancel_accepted |-> FALSE])
  /\ UNCHANGED <<searchVars, indexVars, cancel_requested, cancels>>

\* _run_indexing_job from line 543 to its first suspension: mark the job
\* running; with GPU offload, suspend in wake_and_wait; without it, go straight
\* to the indexing call.
JobBegin(job_id) ==
  /\ job_id \in DOMAIN jobs
  /\ tasks[job_id].pc = "scheduled"
  /\ LET running == MarkRunning(jobs[job_id])
         task == Logged(tasks[job_id], running) IN
     IF running.use_gpu /\ gpu_ollama_enabled
     THEN /\ jobs' = [jobs EXCEPT ![job_id] = running]
          /\ tasks' = [tasks EXCEPT ![job_id] = [task EXCEPT !.pc = "waking"]]
     ELSE /\ CallError # NoError
          /\ LET out == Raise(running, task, "index", CallError) IN
             /\ jobs' = [jobs EXCEPT ![job_id] = out.job]
             /\ tasks' = [tasks EXCEPT ![job_id] = out.task]
  /\ UNCHANGED <<searchVars, indexVars, cancel_requested, cancels>>

\* wake_and_wait returns (it catches its own errors): when the GPU host is
\* ready the retarget call follows, otherwise the indexing call.
JobWake(job_id, gpu_ready) ==
  /\ job_id \in DOMAIN jobs
  /\ tasks[job_id].pc = "waking"
  /\ LET out == IF gpu_ready
                THEN Raise(jobs[job_id], tasks[job_id], "retarget", RetargetError)
                ELSE Raise(jobs[job_id], tasks[job_id], "index", CallError) IN
     /\ (gpu_ready => RetargetError # NoError)
     /\ (~gpu_ready => CallError # NoError)
     /\ jobs' = [jobs EXCEPT ![job_id] = out.job]
     /\ tasks' = [tasks EXCEPT ![job_id] = out.task]
  /\ UNCHANGED <<searchVars, indexVars, cancel_requested, cancels>>

\* The callback POST returns or raises; either way it is only logged.
JobCallback(job_id, ok) ==
  /\ job_id \in DOMAIN jobs
  /\ tasks[job_id].pc = "callback"
  /\ tasks' = [tasks EXCEPT ![job_id] =
       [@ EXCEPT !.pc = "done", !.posts = @ + 1, !.post_ok = ok]]
  /\ UNCHANGED <<searchVars, indexVars, jobs, cancel_requested, cancels>>

\* Indexer.request_cancel
request_cancel(flag) == TRUE

\* Does cancel_job accept the request (lines 784-790)?
CancelAccepted(job_id) ==
  /\ job_id \in DOMAIN jobs
  /\ jobs[job_id].status \in {PENDING, RUNNING}

\* POST /index/cancel/{job_id}
CancelJob(job_id) ==
  /\ cancels < MaxCancels
  /\ CancelAccepted(job_id)
  /\ cancel_requested' = request_cancel(cancel_requested)
  /\ cancels' = cancels + 1
  /\ tasks' = [tasks EXCEPT ![job_id].cancel_accepted = TRUE]
  /\ UNCHANGED <<searchVars, indexVars, jobs>>

(* ------------------------------ indexer ------------------------------- *)
\* Time is counted in half seconds: abs(current_mtime - indexed_mtime) < 1.0
MtimeUnchanged(current_mtime, indexed_mtime) ==
  /\ indexed_mtime # 0
  /\ IF current_mtime >= indexed_mtime
     THEN current_mtime - indexed_mtime < 2
     ELSE indexed_mtime - current_mtime < 2

Present(p) == disk[p].content # Absent

RECURSIVE SelectPresent(_)
SelectPresent(order) ==
  IF order = <<>> THEN <<>>
  ELSE IF Present(Head(order))
       THEN <<Head(order)>> \o SelectPresent(Tail(order))
       ELSE SelectPresent(Tail(order))

\* _list_markdown_files_sync / _list_pdf_files_sync
list_markdown_files == SelectPresent(MdOrder)
list_pdf_files == SelectPresent(PdfOrder)

SeqToSet(seq) == {seq[i] : i \in DOMAIN seq}

\* table.delete('file_hash = "..."')
DeleteByHash(t, file_hash) == SelectSeq(t, LAMBDA rec : rec.file_hash # file_hash)

\* table.delete('file_path = "..."')
DeleteByPath(t, file_path) == SelectSeq(t, LAMBDA rec : rec.file_path # file_path)

RECURSIVE DeletePaths(_, _)
DeletePaths(t, paths) ==
  IF paths = {} THEN t
  ELSE LET p == CHOOSE q \in paths : TRUE IN
       DeletePaths(DeleteByPath(t, p), paths \ {p})

\* table.update(where='file_path = "..."', values={"mtime": ...})
UpdateMtime(t, file_path, mtime) ==
  [i \in DOMAIN t |->
     IF t[i].file_path = file_path THEN [t[i] EXCEPT !.mtime = mtime] ELSE t[i]]

\* incremental_index lines 699-713: the first record of each path
IndexedFiles(t) ==
  [p \in {t[i].file_path : i \in DOMAIN t} |->
     LET first == CHOOSE i \in DOMAIN t :
                    /\ t[i].file_path = p
                    /\ \A k \in DOMAIN t : t[k].file_path = p => i <= k IN
     [file_hash |-> t[first].file_hash, mtime |-> t[first].mtime]]

NoIndexed == IndexedFiles(<<>>)

\* A DocumentChunk record, as index_file / index_pdf_file build it.
ChunkRecord(file_path, content, chunk_index, mtime) ==
  [file_path |-> file_path, file_hash |-> MD5(content),
   chunk_index |-> chunk_index, mtime |-> mtime]

\* The text upsert_document hashes: the body for markdown, the joined page
\* texts for a PDF.
FtsContent(file_path, content) ==
  IF file_path \in PdfPaths THEN PdfFullText(content) ELSE Body(content)

\* FTSIndex.upsert_document: file_hash = md5(content)
upsert_document(f, file_path, content) ==
  [f EXCEPT ![file_path] = MD5(content)]

\* FTSIndex.delete_document
delete_document(f, file_path) == [f EXCEPT ![file_path] = NoHash]

RECURSIVE DeleteDocuments(_, _)
DeleteDocuments(f, paths) ==
  IF paths = {} THEN f
  ELSE LET p == CHOOSE q \in paths : TRUE IN
       DeleteDocuments(delete_document(f, p), paths \ {p})

\* `if self._cancel_requested` before each chunk's embedding
ChunkCancelCheck(flag) == flag

\* File loops that do not look at the flag.
FileCancelCheckMissing(flag) == FALSE

\* `if self._cancel_requested` at the top of the file loops
FileCancelCheck(flag) == flag

\* `if self._cancel_requested` in the deletion loop of incremental_index
DeleteCancelCheck(flag) == flag

\* A chunk loop whose get_embedding asks the host for every chunk.
ChunkLoopUncached(chunks, i, records, calls, flag, cache) ==
  IF i > Len(chunks)
  THEN [kind |-> "end", chunk |-> 0, records |-> records, calls |-> calls]
  ELSE IF flag
  THEN [kind |-> "cancel", chunk |-> 0, records |-> records, calls |-> calls]
  ELSE [kind |-> "await", chunk |-> i, records |-> records, calls |-> calls + 1]

\* The chunk loop of index_file / index_pdf_file from chunk i on, up to its
\* next suspension: a cached chunk is embedded without suspending.
RECURSIVE ChunkLoop(_, _, _, _, _, _)
ChunkLoop(chunks, i, records, calls, flag, cache) ==
  IF i > Len(chunks)
  THEN [kind |-> "end", chunk |-> 0, records |-> records, calls |-> calls]
  ELSE IF ChunkCancelCheck(flag)
  THEN [kind |-> "cancel", chunk |-> 0, records |-> records, calls |-> calls]
  ELSE IF chunks[i] \in cache
  THEN ChunkLoop(chunks, i + 1, Append(records, i - 1), calls + 1, flag, cache)
  ELSE [kind |-> "await", chunk |-> i, records |-> records, calls |-> calls + 1]

\* The indices as a run found them when it started.
NoSnapshot == [table |-> <<>>, fts |-> [p \in Paths |-> NoHash]]

\* How the previous POST /index of a handler ended.
NoLast == [kind |-> "none", fsOps |-> 0]

IdleRun ==
  [before |-> NoSnapshot, last |-> NoLast,
   pc |-> "idle", full |-> FALSE, indexed_files |-> NoIndexed,
   md_files |-> <<>>, pdf_files |-> <<>>, cur |-> "", cur_mtime |-> 0,
   content |-> Absent, chunk |-> 0, records |-> <<>>, total_indexed |-> 0,
   observed |-> FALSE, cancelled |-> FALSE, written |-> 0, faulty |-> FALSE,
   overlapped |-> FALSE, embed_calls |-> 0, deletes |-> 0, files_started |-> 0]

Active(r) == runs[r].pc \notin {"idle", "returned", "raised"}

Runners == {"r1", "r2"}

\* Another coroutine touched the shared state while run q was not idle.
Overlap(rs, q) ==
  [rs[q] EXCEPT !.overlapped = IF rs[q].pc # "idle" THEN TRUE ELSE @]

\* POST /index: run_indexing calls full_reindex or incremental_index, which
\* runs to its first suspension (the file listing): the flag is reset, a full
\* reindex clears the table, an incremental one reads the indexed files.
StartRun(r, full) ==
  /\ runsStarted < MaxRuns
  /\ runs[r].pc = "idle"
  /\ runsStarted' = runsStarted + 1
  /\ cancel_requested' = FALSE
  /\ table' = IF full THEN <<>> ELSE table
  /\ runs' = [q \in Runners |->
       IF q = r
       THEN [IdleRun EXCEPT
               !.pc = "listing", !.full = full,
               !.before = [table |-> table, fts |-> fts],
               !.last = runs[r].last,
               !.indexed_files = IF full THEN NoIndexed ELSE IndexedFiles(table),
               !.deletes = IF full THEN 1 ELSE 0,
               !.overlapped = \E o \in Runners \ {r} : Active(o)]
       ELSE [Overlap(runs, q) EXCEPT !.observed = FALSE]]
  /\ UNCHANGED <<searchVars, disk, fsOps, clock, fts, embedding_cache, faults, jobVars,
                 cancels>>

\* A further POST /index with the default body (an incremental reindex),
\* once MaxRuns requests have been counted: the same call, not counted.
Rerun(r) ==
  /\ runsStarted = MaxRuns
  /\ runs[r].pc = "idle"
  /\ cancel_requested' = FALSE
  /\ runs' = [q \in Runners |->
       IF q = r
       THEN [IdleRun EXCEPT
               !.pc = "listing",
               !.before = [table |-> table, fts |-> fts],
               !.last = runs[r].last,
               !.indexed_files = IndexedFiles(table),
               !.overlapped = \E o \in Runners \ {r} : Active(o)]
       ELSE [Overlap(runs, q) EXCEPT !.observed = FALSE]]
  /\ UNCHANGED <<searchVars, disk, fsOps, clock, table, fts, embedding_cache, faults,
                 jobVars, cancels, runsStarted>>

\* The pc a run continues at when the markdown loop ends or breaks.
AfterMdLoop(full) ==
  IF full THEN (IF pdf_enabled THEN "list_pdf" ELSE "returned") ELSE "pdf_loop"

\* The listing returns.  incremental_index lists both kinds and handles the
\* deletions (lines 716-741) before its next suspension.
Listing(r) ==
  /\ runs[r].pc = "listing"
  /\ LET rn == runs[r]
         md == list_markdown_files
         pdf == IF pdf_enabled THEN list_pdf_files ELSE <<>>
         deleted_files == DOMAIN rn.indexed_files \ (SeqToSet(md) \cup SeqToSet(pdf)) IN
     IF rn.full
     THEN /\ runs' = [runs EXCEPT ![r] = [rn EXCEPT !.pc = "md_loop", !.md_files = md]]
          /\ UNCHANGED <<table, fts>>
     ELSE IF deleted_files # {} /\ DeleteCancelCheck(cancel_requested)
     THEN /\ runs' = [runs EXCEPT ![r] =
               [rn EXCEPT !.pc = "md_loop", !.md_files = md, !.pdf_files = pdf,
                          !.observed = TRUE, !.cancelled = TRUE]]
          /\ UNCHANGED <<table, fts>>
     ELSE /\ runs' = [runs EXCEPT ![r] =
               [rn EXCEPT !.pc = "md_loop", !.md_files = md, !.pdf_files = pdf,
                          !.deletes = @ + Cardinality(deleted_files)]]
          /\ table' = DeletePaths(table, deleted_files)
          /\ fts' = DeleteDocuments(fts, deleted_files)
  /\ UNCHANGED <<searchVars, disk, fsOps, clock, embedding_cache, cancel_requested,
                 runsStarted, faults, jobVars, cancels>>

\* Tier 1 of the change detection (lines 763-768, 823-827)
Tier1Skip(indexed_files, file_path, current_mtime) ==
  /\ file_path \in DOMAIN indexed_files
  /\ MtimeUnchanged(current_mtime, indexed_files[file_path].mtime)

\* The top of the markdown loop of full_reindex (634-639) or of
\* incremental_index (748-768), up to the next suspension.
MdLoop(r) ==
  /\ runs[r].pc = "md_loop"
  /\ LET rn == runs[r] IN
     runs' = [runs EXCEPT ![r] =
       IF rn.md_files = <<>>
       THEN [rn EXCEPT !.pc = AfterMdLoop(rn.full)]
       ELSE IF FileCancelCheck(cancel_requested)
       THEN [rn EXCEPT !.pc = AfterMdLoop(rn.full), !.md_files = <<>>,
                       !.observed = TRUE, !.cancelled = TRUE]
       ELSE LET f == Head(rn.md_files)
                next == [rn EXCEPT !.md_files = Tail(@),
                                   !.files_started = @ + 1] IN
            IF rn.full
            THEN [next EXCEPT !.pc = "reading", !.cur = f, !.cur_mtime = 0]
            ELSE IF ~Present(f) THEN next
            ELSE IF Tier1Skip(rn.indexed_files, f, disk[f].mtime) THEN next
            ELSE [next EXCEPT
                    !.pc = IF f \in DOMAIN rn.indexed_files
                           THEN "hash_read" ELSE "reading",
                    !.cur = f, !.cur_mtime = disk[f].mtime]]
  /\ UNCHANGED <<searchVars, disk, fsOps, clock, table, fts, embedding_cache,
                 cancel_requested, runsStarted, faults, jobVars, cancels>>

\* Tier 2 (lines 771-794): the content is read and hashed; an unchanged hash
\* only refreshes the stored mtime.
HashRead(r) ==
  /\ runs[r].pc = "hash_read"
  /\ LET rn == runs[r]
         content == disk[rn.cur].content
         back == [rn EXCEPT !.pc = "md_loop", !.cur = "", !.cur_mtime = 0] IN
     IF content = Absent
     THEN /\ runs' = [runs EXCEPT ![r] = back]
          /\ table' = table
     ELSE IF MD5(content) = rn.indexed_files[rn.cur].file_hash
     THEN /\ runs' = [runs EXCEPT ![r] = back]
          /\ table' = UpdateMtime(table, rn.cur, rn.cur_mtime)
     ELSE /\ runs' = [runs EXCEPT ![r] = [rn EXCEPT !.pc = "reading"]]
          /\ table' = table
  /\ UNCHANGED <<searchVars, disk, fsOps, clock, fts, embedding_cache, cancel_requested,
                 runsStarted, faults, jobVars, cancels>>

LoopPc(file_path) == IF file_path \in PdfPaths THEN "pdf_loop" ELSE "md_loop"

\* index_file / index_pdf_file returns `count` to the loop that called it.
FileReturn(rn, count) ==
  [rn EXCEPT !.pc = LoopPc(rn.cur), !.cur = "", !.cur_mtime = 0,
             !.content = Absent, !.chunk = 0, !.records = <<>>,
             !.total_indexed = @ + count]

\* What index_file / index_pdf_file return when the chunk loop observes the
\* cancellation flag (lines 530-532, 439-441).
CancelledCount(records) == Len(records)

\* The records of the batch index_file / index_pdf_file adds (lines 559-567).
Batch(rn, records) ==
  [i \in 1..Len(records) |->
     ChunkRecord(rn.cur, rn.content, records[i], rn.cur_mtime)]

\* A suspension of the coroutine between the delete and the add.
SuspendsBeforeAddAssumed == TRUE

\* Lines 559-567 (and 468-476): table.delete and table.add are called one
\* after the other with no await in between.
SuspendsBeforeAdd == FALSE

\* The batch is added without the delete.
WriteBatchAppended(t, rn, records) == t \o Batch(rn, records)

\* Lines 559-567: delete the records of this file_hash, then add the batch.
WriteBatch(t, rn, records) ==
  DeleteByHash(t, MD5(rn.content)) \o Batch(rn, records)

\* The rest of index_file / index_pdf_file once the chunk loop has reached
\* `loop`: suspend in the next embedding request, return on cancellation, or
\* write the records to both indices and return.  A failing keyword upsert is
\* logged; a failing table.add is not caught and leaves the reindex method.
Proceed(r, rn, loop, ftsOk, addOk) ==
  LET counted == [rn EXCEPT !.embed_calls = @ + loop.calls] IN
  CASE loop.kind = "await" ->
         /\ ftsOk /\ addOk
         /\ runs' = [runs EXCEPT ![r] =
              [counted EXCEPT !.pc = "embedding", !.chunk = loop.chunk,
                              !.records = loop.records]]
         /\ UNCHANGED <<table, fts>>
    [] loop.kind = "cancel" ->
         /\ ftsOk /\ addOk
         /\ runs' = [runs EXCEPT ![r] =
              [FileReturn(counted, CancelledCount(loop.records)) EXCEPT
                 !.observed = TRUE, !.cancelled = TRUE]]
         /\ UNCHANGED <<table, fts>>
    [] loop.kind = "end" /\ loop.records = <<>> ->
         /\ ftsOk /\ addOk
         /\ runs' = [runs EXCEPT ![r] = FileReturn(counted, 0)]
         /\ UNCHANGED <<table, fts>>
    [] loop.kind = "end" /\ loop.records # <<>> /\ ~addOk ->
         /\ ftsOk
         /\ table' = DeleteByHash(table, MD5(rn.content))
         /\ fts' = fts
         /\ runs' = [runs EXCEPT ![r] =
              [counted EXCEPT !.pc = "raised", !.deletes = @ + 1,
                              !.faulty = TRUE]]
    [] loop.kind = "end" /\ loop.records # <<>> /\ addOk /\ SuspendsBeforeAdd ->
         /\ ftsOk
         /\ table' = DeleteByHash(table, MD5(rn.content))
         /\ fts' = fts
         /\ runs' = [runs EXCEPT ![r] =
              [counted EXCEPT !.pc = "adding", !.records = loop.records,
                              !.deletes = @ + 1]]
    [] loop.kind = "end" /\ loop.records # <<>> /\ addOk /\ ~SuspendsBeforeAdd ->
         /\ table' = WriteBatch(table, rn, loop.records)
         /\ fts' = IF ftsOk
                   THEN upsert_document(fts, rn.cur, FtsContent(rn.cur, rn.content))
                   ELSE fts
         /\ runs' = [runs EXCEPT ![r] =
              [FileReturn(counted, Len(loop.records)) EXCEPT
                 !.written = @ + Len(loop.records),
                 !.deletes = @ + 1,
                 !.faulty = IF ftsOk THEN @ ELSE TRUE]]

\* Are the file's bytes a document index_file / index_pdf_file goes on with
\* (lines 505-508, 413-416), PDF support given?
Ingestible(file_path, content) ==
  IF file_path \in PdfPaths
  THEN content # Absent /\ Chunks(content) # <<>>
  ELSE content # Absent /\ ~TooShort(content)

\* index_file / index_pdf_file from the read of the file to the first
\* suspension of the chunk loop (reading, metadata extraction and chunking are
\* pure once the bytes are read).
Reading(r, ftsOk, addOk) ==
  /\ runs[r].pc = "reading"
  /\ faults + (IF ftsOk THEN 0 ELSE 1) + (IF addOk THEN 0 ELSE 1) <= MaxFaults
  /\ faults' = faults + (IF ftsOk THEN 0 ELSE 1) + (IF addOk THEN 0 ELSE 1)
  /\ LET rn == runs[r]
         content == disk[rn.cur].content
         mtime == IF rn.cur_mtime = 0 THEN disk[rn.cur].mtime ELSE rn.cur_mtime
         read == [rn EXCEPT !.content = content, !.cur_mtime = mtime] IN
     IF \/ rn.cur \in PdfPaths /\ ~pdf_enabled
        \/ ~Ingestible(rn.cur, content)
        \/ Chunks(content) = <<>>
     THEN /\ ftsOk /\ addOk
          /\ runs' = [runs EXCEPT ![r] = FileReturn(rn, 0)]
          /\ UNCHANGED <<table, fts>>
     ELSE Proceed(r, read,
                  ChunkLoop(Chunks(content), 1, <<>>, 0, cancel_requested,
                            embedding_cache),
                  ftsOk, addOk)
  /\ UNCHANGED <<searchVars, disk, fsOps, clock, embedding_cache, cancel_requested,
                 runsStarted, jobVars, cancels>>

\* The embedding request of chunk runs[r].chunk returns a vector (ok) or
\* raises; the chunk loop then goes on to its next suspension.
EmbedReturn(r, ok, ftsOk, addOk) ==
  /\ runs[r].pc \in {"embedding", "adding"}
  /\ runs[r].pc = "adding" => ok
  /\ faults + (IF ok THEN 0 ELSE 1) + (IF ftsOk THEN 0 ELSE 1)
            + (IF addOk THEN 0 ELSE 1) <= MaxFaults
  /\ faults' = faults + (IF ok THEN 0 ELSE 1) + (IF ftsOk THEN 0 ELSE 1)
                      + (IF addOk THEN 0 ELSE 1)
  /\ LET rn == runs[r]
         chunks == Chunks(rn.content)
         cache == IF ok THEN embedding_cache \cup {chunks[rn.chunk]}
                  ELSE embedding_cache
         records == IF ok THEN Append(rn.records, rn.chunk - 1) ELSE rn.records
         after == [rn EXCEPT !.faulty = IF ok THEN @ ELSE TRUE] IN
     IF rn.pc = "adding"
     THEN /\ embedding_cache' = embedding_cache
          /\ table' = IF addOk THEN table \o Batch(rn, rn.records) ELSE table
          /\ fts' = IF addOk /\ ftsOk
                    THEN upsert_document(fts, rn.cur, FtsContent(rn.cur, rn.content))
                    ELSE fts
          /\ runs' = [runs EXCEPT ![r] =
               IF addOk
               THEN [FileReturn(rn, Len(rn.records)) EXCEPT
                       !.written = @ + Len(rn.records),
                       !.faulty = IF ftsOk THEN @ ELSE TRUE]
               ELSE [rn EXCEPT !.pc = "raised", !.faulty = TRUE]]
     ELSE /\ embedding_cache' = cache
          /\ Proceed(r, after,
                     ChunkLoop(chunks, rn.chunk + 1, records, 0, cancel_requested, cache),
                     ftsOk, addOk)
  /\ UNCHANGED <<searchVars, disk, fsOps, clock, cancel_requested, runsStarted, jobVars,
                 cancels>>

\* full_reindex lines 648-650: the PDF listing returns.
ListPdf(r) ==
  /\ runs[r].pc = "list_pdf"
  /\ runs' = [runs EXCEPT ![r] =
       [@ EXCEPT !.pc = "pdf_loop", !.pdf_files = list_pdf_files]]
  /\ UNCHANGED <<searchVars, disk, fsOps, clock, table, fts, embedding_cache,
                 cancel_requested, runsStarted, faults, jobVars, cancels>>

\* The top of the PDF loop of full_reindex (654-659) or of incremental_index
\* (809-830); when the loop ends or breaks the run returns total_indexed.
PdfLoop(r) ==
  /\ runs[r].pc = "pdf_loop"
  /\ LET rn == runs[r] IN
     runs' = [runs EXCEPT ![r] =
       IF rn.pdf_files = <<>>
       THEN [rn EXCEPT !.pc = "returned"]
       ELSE IF FileCancelCheck(cancel_requested)
       THEN [rn EXCEPT !.pc = "returned", !.pdf_files = <<>>,
                       !.observed = TRUE, !.cancelled = TRUE]
       ELSE LET f == Head(rn.pdf_files)
                next == [rn EXCEPT !.pdf_files = Tail(@),
                                   !.files_started = @ + 1] IN
            IF rn.full
            THEN [next EXCEPT !.pc = "reading", !.cur = f, !.cur_mtime = 0]
            ELSE IF ~Present(f) THEN next
            ELSE IF Tier1Skip(rn.indexed_files, f, disk[f].mtime) THEN next
            ELSE [next EXCEPT !.pc = "reading", !.cur = f,
                              !.cur_mtime = disk[f].mtime]]
  /\ UNCHANGED <<searchVars, disk, fsOps, clock, table, fts, embedding_cache,
                 cancel_requested, runsStarted, faults, jobVars, cancels>>

\* What is remembered of a run once its request is over.
Summary(rn, ops) ==
  LET undisturbed == rn.pc = "returned" /\ ~rn.faulty /\ ~rn.overlapped
      kind == CASE undisturbed /\ rn.full /\ rn.cancelled /\ rn.written > 0 ->
                     "full_cancelled"
                [] undisturbed /\ ~rn.full /\ ~rn.cancelled -> "incr_clean"
                [] OTHER -> "other" IN
  [kind |-> kind, fsOps |-> IF kind = "other" THEN 0 ELSE ops]

\* run_indexing sends IndexResponse(status="complete", indexed=...), or the
\* exception of the reindex method leaves the handler.
Respond(r) ==
  /\ runs[r].pc \in {"returned", "raised"}
  /\ runs' = [runs EXCEPT ![r] = [IdleRun EXCEPT !.last = Summary(runs[r], fsOps)]]
  /\ UNCHANGED <<searchVars, disk, fsOps, clock, table, fts, embedding_cache,
                 cancel_requested, runsStarted, faults, jobVars, cancels>>

(* ------------------------------ filesystem ---------------------------- *)
ContentsOf(p) == IF p \in PdfPaths THEN PdfContents ELSE MdContents

\* The user changes the vault between reindex runs.
Quiet == \A r \in Runners : ~Active(r)

\* A file is created, edited or touched, dt half seconds after the last change.
FsWrite(p, content, dt) ==
  /\ fsOps < MaxFsOps
  /\ Quiet
  /\ fsOps' = fsOps + 1
  /\ clock' = clock + dt
  /\ disk' = [disk EXCEPT ![p] = [content |-> content, mtime |-> clock + dt]]
  /\ runs' = [q \in Runners |-> Overlap(runs, q)]
  /\ UNCHANGED <<searchVars, table, fts, embedding_cache, cancel_requested, runsStarted,
                 faults, jobVars, cancels>>

\* A file is removed.
FsDelete(p) ==
  /\ fsOps < MaxFsOps
  /\ Quiet
  /\ Present(p)
  /\ fsOps' = fsOps + 1
  /\ disk' = [disk EXCEPT ![p] = [content |-> Absent, mtime |-> 0]]
  /\ runs' = [q \in Runners |-> Overlap(runs, q)]
  /\ UNCHANGED <<searchVars, clock, table, fts, embedding_cache, cancel_requested,
                 runsStarted, faults, jobVars, cancels>>

(* ------------------------------ searcher ------------------------------ *)
\* No pure function is being evaluated.
NoCalc == [fn |-> "none"]

\* A missing date (None / NULL), a filter that is not given, no parsed range.
NoDate == 0
NoFilter == "none"
NoRange == [start |-> NoDate, end |-> NoDate]

\* _extract_metadata_sync / _extract_pdf_text_sync: the category (first path
\* component), the people (none for a PDF) and the date (as an ordered day
\* number) of the documents of the corpus.
Category(p) == IF p \in PdfPaths THEN "papers" ELSE "meetings"
People(p) == IF p = "m1.md" THEN {"Nikhil"} ELSE {}
Date(p) ==
  CASE p = "m1.md" -> 2
    [] p = "m2.md" -> 4
    [] OTHER -> NoDate

\* The dict vector_search / FTSIndex.search builds for a row.
Hit(file_path, chunk_index, source, score) ==
  [file_path |-> file_path, chunk_index |-> chunk_index, source |-> source,
   score |-> score, date |-> Date(file_path), category |-> Category(file_path),
   people |-> People(file_path)]

\* seq[:n]
Take(seq, n) == SubSeq(seq, 1, IF n < Len(seq) THEN n ELSE Len(seq))

Reverse(seq) == [i \in 1..Len(seq) |-> seq[Len(seq) + 1 - i]]

\* hybrid_search asks both halves for 30 results
SubLimit == 30

\* A where clause of the dates only.
VectorFilterDatesOnly(rec, category, person, date_from, date_to) ==
  /\ (date_from # NoDate =>
        Date(rec.file_path) # NoDate /\ Date(rec.file_path) >= date_from)
  /\ (date_to # NoDate =>
        Date(rec.file_path) # NoDate /\ Date(rec.file_path) <= date_to)

\* The where clause vector_search builds from its arguments.  A comparison
\* with a NULL date is not true.
VectorFilter(rec, category, person, date_from, date_to) ==
  /\ (category # NoFilter => Category(rec.file_path) = category)
  /\ (person # NoFilter => person \in People(rec.file_path))
  /\ (date_from # NoDate =>
        Date(rec.file_path) # NoDate /\ Date(rec.file_path) >= date_from)
  /\ (date_to # NoDate =>
        Date(rec.file_path) # NoDate /\ Date(rec.file_path) <= date_to)

\* vector_search once the query embedding is there: the nearest records that
\* pass the filters, best first (`nearest` is the table in order of distance);
\* an error of the table search is logged and gives no results.
VectorHits(nearest, tableOk, category, person, date_from, date_to, limit) ==
  IF ~tableOk THEN <<>>
  ELSE LET passing == SelectSeq(nearest, LAMBDA rec :
                        VectorFilter(rec, category, person, date_from, date_to))
           found == Take(passing, limit) IN
       Take([i \in 1..Len(found) |->
               Hit(found[i].file_path, found[i].chunk_index, "vector",
                   Len(found) + 1 - i)],
            limit)

\* The parameters FTSIndex.search declares (besides self).
FtsSearchParams == {"query", "vault", "limit", "person"}

\* The keywords Searcher.bm25_search passes to it.
Bm25CallKeywords == {"query", "vault", "limit", "person", "date_from", "date_to"}

\* What the call self.fts_index.search(...) of bm25_search raises.
Bm25CallError ==
  IF Bm25CallKeywords \subseteq FtsSearchParams THEN NoError ELSE "TypeError"

\* d.people LIKE '%person%'
PersonLike(people, person) ==
  \E name \in people : name = person \/ (name = "Nikhil" /\ person = "Nik")

RECURSIVE FtsRows(_, _, _)
FtsRows(f, order, person) ==
  IF order = <<>> THEN <<>>
  ELSE LET p == Head(order)
           rest == FtsRows(f, Tail(order), person) IN
       IF f[p] # NoHash /\ (person = NoFilter \/ PersonLike(People(p), person))
       THEN <<p>> \o rest
       ELSE rest

\* FTSIndex.search: the rows that match, best first, with the person filter.
FtsSearch(f, person, limit) ==
  LET rows == Take(FtsRows(f, MdOrder \o PdfOrder, person), limit) IN
  [i \in 1..Len(rows) |-> Hit(rows[i], 0, "bm25", Len(rows) + 1 - i)]

\* Searcher.bm25_search: no results without an FTS index, otherwise the call
\* of FTSIndex.search.
bm25_search(present, f, person, limit) ==
  IF ~present THEN [kind |-> "ok", hits |-> <<>>]
  ELSE IF Bm25CallError # NoError THEN [kind |-> "raised", hits |-> <<>>]
  ELSE [kind |-> "ok", hits |-> FtsSearch(f, person, limit)]

\* reciprocal_rank_fusion is called with k=60
RrfK == 60

\* The scores 1/(k + rank) of the ranks 1..5 as integers: all multiplied by
\* the product of their denominators.
RrfScale(k) == (k + 1) * (k + 2) * (k + 3) * (k + 4) * (k + 5)
\* A weight that grows with the rank.
RrfWeightRising(k, rank) == k + rank

RrfWeight(k, rank) == RrfScale(k) \div (k + rank)

\* The 1-based position of the first item of path p in list L, 0 if none.
FirstPos(L, p) ==
  IF \E i \in DOMAIN L : L[i].file_path = p
  THEN CHOOSE i \in DOMAIN L :
         /\ L[i].file_path = p
         /\ \A j \in DOMAIN L : L[j].file_path = p => i <= j
  ELSE 0

RECURSIVE RrfScore(_, _, _)
RrfScore(lists, p, k) ==
  IF lists = <<>> THEN 0
  ELSE (IF FirstPos(Head(lists), p) > 0
        THEN RrfWeight(k, FirstPos(Head(lists), p)) ELSE 0)
       + RrfScore(Tail(lists), p, k)

RECURSIVE Concat(_)
Concat(lists) == IF lists = <<>> THEN <<>> ELSE Head(lists) \o Concat(Tail(lists))

\* One item per file_path, the first one in order of appearance.
RECURSIVE FirstPerPath(_, _)
FirstPerPath(items, seen) ==
  IF items = <<>> THEN <<>>
  ELSE IF Head(items).file_path \in seen
       THEN FirstPerPath(Tail(items), seen)
       ELSE <<Head(items)>> \o
            FirstPerPath(Tail(items), seen \cup {Head(items).file_path})

\* Best score first, ties in the order of `items`.
RECURSIVE ByScore(_)
ByScore(items) ==
  IF items = <<>> THEN <<>>
  ELSE LET best == CHOOSE i \in DOMAIN items :
                     /\ \A j \in DOMAIN items : items[j].score <= items[i].score
                     /\ \A j \in DOMAIN items :
                          items[j].score = items[i].score => i <= j IN
       <<items[best]>> \o
       ByScore([i \in 1..(Len(items) - 1) |->
                  IF i < best THEN items[i] ELSE items[i + 1]])

\* A fusion that leaves the items in their order of appearance.
FusionUnsorted(lists, k) ==
  LET items == FirstPerPath(Concat(lists), {}) IN
  [i \in 1..Len(items) |->
     [items[i] EXCEPT !.score = RrfScore(lists, items[i].file_path, k)]]

\* A fusion that scores by the first list alone.
FusionOfFirstList(lists, k) ==
  LET items == FirstPerPath(Concat(lists), {})
      scored == [i \in 1..Len(items) |->
                   [items[i] EXCEPT
                      !.score = RrfScore(Take(lists, 1), items[i].file_path, k)]] IN
  ByScore(scored)

\* Reciprocal-rank fusion: every path gets the sum of 1/(k + rank) over the
\* lists it appears in; one item per path, best first, ties by first
\* appearance.
reciprocal_rank_fusion(lists, k) ==
  LET items == FirstPerPath(Concat(lists), {})
      scored == [i \in 1..Len(items) |->
                   [items[i] EXCEPT !.score = RrfScore(lists, items[i].file_path, k)]] IN
  ByScore(scored)

\* Min-max normalisation of the scores to 0..1, here in thousandths.
normalize_scores(items) ==
  IF items = <<>> THEN <<>>
  ELSE LET scores == {items[i].score : i \in DOMAIN items}
           hi == CHOOSE x \in scores : \A y \in scores : y <= x
           lo == CHOOSE x \in scores : \A y \in scores : x <= y IN
       [i \in 1..Len(items) |->
          [items[i] EXCEPT
             !.score = IF hi = lo THEN 1000
                       ELSE ((items[i].score - lo) * 1000) \div (hi - lo)]]

\* The date arguments as given, whatever the parser found.
HybridDatesAsGiven(range, date_from, date_to) ==
  [date_from |-> date_from, date_to |-> date_to]

\* hybrid_search lines 276-285: a parsed range replaces the date arguments.
HybridDates(range, date_from, date_to) ==
  IF range # NoRange
  THEN [date_from |-> range.start, date_to |-> range.end]
  ELSE [date_from |-> date_from, date_to |-> date_to]

\* hybrid_search lines 287-289
IsPersonQuery(names, intent) == intent \/ names # {}

\* hybrid_search lines 308-315: the lists given to the fusion
ResultLists(bm25_results, vector_results, is_person_query) ==
  IF is_person_query /\ Len(bm25_results) > 0
  THEN <<bm25_results, bm25_results, bm25_results, vector_results>>
  ELSE <<bm25_results, vector_results>>

\* A fusion step that only appends the lists.
HybridFuseAppended(result_lists) == Concat(result_lists)

\* hybrid_search line 318
HybridFuse(result_lists) == reciprocal_rank_fusion(result_lists, RrfK)

\* hybrid_search lines 308-324: fuse the two lists, normalise, cut.
HybridOutput(bm25_results, vector_results, is_person_query, limit) ==
  Take(normalize_scores(HybridFuse(ResultLists(bm25_results, vector_results,
                                               is_person_query))),
       limit)

\* Position-aware blend of the fused list with the reranker's scores.  The
\* scores of the language model are not determined: the blend moves the hit
\* at position `promote` to the front, or leaves the order (promote = 0).
position_aware_blend(fused, promote) ==
  IF promote \notin DOMAIN fused THEN fused
  ELSE <<fused[promote]>> \o
       SelectSeq(fused, LAMBDA x : x.file_path # fused[promote].file_path)

\* query_search lines 349-377 when the expansion returns the query alone:
\* one hybrid search with limit 30, its fusion, the rerank blend, the cut.
QueryOutput(hybrid_results, promote, limit) ==
  LET fused == reciprocal_rank_fusion(<<hybrid_results>>, RrfK) IN
  Take(IF Len(fused) > 0 THEN position_aware_blend(fused, promote) ELSE fused,
       limit)

IdleSearch ==
  [pc |-> "idle", mode |-> "hybrid", range |-> NoRange, category |-> NoFilter,
   person |-> NoFilter, date_from |-> NoDate, date_to |-> NoDate,
   is_person_query |-> FALSE, limit |-> 0, bm25_results |-> <<>>,
   vector_results |-> <<>>, failed |-> {}, results |-> <<>>,
   during |-> FALSE, midwrite |-> FALSE]

\* Searcher.search in mode "vector" (vector_search alone, no BM25 half), or
\* in mode "hybrid" or "query" (query_search takes no dates and its expansion
\* returns the query alone), then
\* hybrid_search up to its suspension in asyncio.gather: parse the range,
\* classify the query, start both halves.  bm25_search does not suspend; an
\* exception of it is the result of gather at once, whatever becomes of the
\* embedding request of the other half (`embedOk`).
HybridSearch(mode, range, category, person, date_from, date_to, names, intent, limit, embedOk) ==
  /\ search.pc = "idle"
  /\ LET dates == IF mode = "query"
                  THEN HybridDates(range, NoDate, NoDate)
                  ELSE HybridDates(range, date_from, date_to)
         bm25 == IF mode = "vector"
                 THEN [kind |-> "ok", hits |-> <<>>]
                 ELSE bm25_search(fts_index, fts, person, SubLimit)
         call == [IdleSearch EXCEPT
                    !.mode = mode, !.range = range, !.category = category, !.person = person,
                    !.date_from = dates.date_from, !.date_to = dates.date_to,
                    !.is_person_query = IsPersonQuery(names, intent),
                    !.limit = limit] IN
     search' = IF bm25.kind = "raised"
               THEN [call EXCEPT
                       !.pc = "raised",
                       !.failed = IF embedOk THEN {"bm25"} ELSE {"bm25", "vector"}]
               ELSE [call EXCEPT !.pc = "embedding", !.bm25_results = bm25.hits]
  /\ UNCHANGED <<indexVars, jobVars, cancel_requested, cancels, fts_index, pdf_enabled, calc>>

\* The query embedding arrives or the request fails (get_embedding is not
\* inside a try); with the embedding vector_search finishes, gather returns
\* both lists, and hybrid_search fuses, normalises and cuts them; in mode
\* "query" query_search goes on with the reranking.  `during` and `midwrite`
\* note what the indexer was doing when the table was read.
QueryEmbedded(ok, tableOk, reversed, promote) ==
  /\ search.pc = "embedding"
  /\ LET nearest == IF reversed THEN Reverse(table) ELSE table
         vector_results ==
           VectorHits(nearest, tableOk, search.category, search.person,
                      search.date_from, search.date_to,
                      IF search.mode = "vector" THEN search.limit ELSE SubLimit)
         Hybrid(limit) == HybridOutput(search.bm25_results, vector_results,
                                       search.is_person_query, limit) IN
     search' = IF ~ok
               THEN [search EXCEPT !.pc = "raised", !.failed = {"vector"}]
               ELSE [search EXCEPT
                       !.pc = "returned", !.vector_results = vector_results,
                       !.during = \E r \in Runners : Active(r) /\ runs[r].written > 0,
                       !.midwrite = \E r \in Runners : runs[r].pc = "adding",
                       !.results =
                         CASE search.mode = "query" ->
                                QueryOutput(Hybrid(SubLimit), promote, search.limit)
                           [] search.mode = "vector" -> vector_results
                           [] OTHER -> Hybrid(search.limit)]
  /\ UNCHANGED <<indexVars, jobVars, cancel_requested, cancels, fts_index, pdf_enabled, calc>>

\* The caller has the results, or the exception.
SearchDone ==
  /\ search.pc \in {"returned", "raised"}
  /\ search' = IdleSearch
  /\ UNCHANGED <<indexVars, jobVars, cancel_requested, cancels, fts_index, pdf_enabled, calc>>

(* ------------------------------ pure functions ------------------------ *)
\* The ranked list a retrieval half returns for the documents `paths`, best
\* first.
RankedList(paths) ==
  [i \in 1..Len(paths) |->
     [file_path |-> paths[i], chunk_index |-> i - 1, score |-> Len(paths) + 1 - i]]

\* fused = reciprocal_rank_fusion(result_lists, k=60)
Fuse ==
  /\ calc.fn = "fuse"
  /\ calc' = [fn |-> "fused", lists |-> calc.lists,
              fused |-> reciprocal_rank_fusion(calc.lists, RrfK)]
  /\ UNCHANGED <<indexVars, jobVars, cancel_requested, cancels, fts_index, pdf_enabled, search>>

(* ------------------------------ temporal ------------------------------ *)
\* A query is the sequence of its words in lower case.

\* MONTHS.items(), in the order of the dict
MONTHS ==
  << <<"january", 1>>, <<"jan", 1>>, <<"february", 2>>, <<"feb", 2>>,
     <<"march", 3>>, <<"mar", 3>>, <<"april", 4>>, <<"apr", 4>>, <<"may", 5>>,
     <<"june", 6>>, <<"jun", 6>>, <<"july", 7>>, <<"jul", 7>>, <<"august", 8>>,
     <<"aug", 8>>, <<"september", 9>>, <<"sep", 9>>, <<"sept", 9>>,
     <<"october", 10>>, <<"oct", 10>>, <<"november", 11>>, <<"nov", 11>>,
     <<"december", 12>>, <<"dec", 12>> >>

\* DAYS_OF_WEEK.items(), in the order of the dict (0 = Monday)
DAYS_OF_WEEK ==
  << <<"monday", 0>>, <<"mon", 0>>, <<"tuesday", 1>>, <<"tue", 1>>, <<"tues", 1>>,
     <<"wednesday", 2>>, <<"wed", 2>>, <<"thursday", 3>>, <<"thu", 3>>,
     <<"thurs", 3>>, <<"friday", 4>>, <<"fri", 4>>, <<"saturday", 5>>,
     <<"sat", 5>>, <<"sunday", 6>>, <<"sun", 6>> >>

\* int(text) of a word of one or two digits, -1 for any other word.
Number(w) ==
  CASE w = "7" -> 7
    [] w = "10" -> 10
    [] w = "29" -> 29
    [] w = "30" -> 30
    [] OTHER -> -1

\* datetime: the days of a month, the days from 2024-01-01 (a Monday) to a
\* date, weekday(), and date - timedelta(days).
DaysInMonth(y, m) ==
  CASE m = 2 -> IF y % 4 = 0 THEN 29 ELSE 28
    [] m \in {4, 6, 9, 11} -> 30
    [] OTHER -> 31

RECURSIVE ToOrdinal(_)
ToOrdinal(dt) ==
  IF dt.d > 1 THEN dt.d - 1 + ToOrdinal([dt EXCEPT !.d = 1])
  ELSE IF dt.m > 1
  THEN DaysInMonth(dt.y, dt.m - 1) + ToOrdinal([dt EXCEPT !.m = dt.m - 1])
  ELSE IF dt.y > 2024 THEN 31 + ToOrdinal([y |-> dt.y - 1, m |-> 12, d |-> 1])
  ELSE 0

weekday(dt) == ToOrdinal(dt) % 7

RECURSIVE Minus(_, _)
Minus(dt, days) ==
  IF days = 0 THEN dt
  ELSE IF dt.d > 1 THEN Minus([dt EXCEPT !.d = dt.d - 1], days - 1)
  ELSE IF dt.m > 1
  THEN Minus([dt EXCEPT !.m = dt.m - 1, !.d = DaysInMonth(dt.y, dt.m - 1)], days - 1)
  ELSE Minus([y |-> dt.y - 1, m |-> 12, d |-> 31], days - 1)

\* "last Monday" on a Monday: the weekday of the reference date itself.
DaysAgoSameDay(ref_weekday, day_num) == (ref_weekday - day_num) % 7

\* Lines 163-165: days_ago of "last <weekday>"
DaysAgo(ref_weekday, day_num) ==
  IF (ref_weekday - day_num) % 7 = 0 THEN 7 ELSE (ref_weekday - day_num) % 7

\* re.search of words side by side: the first position where the words `ws`
\* stand in q, 0 if none.
Find(q, ws) ==
  LET hits == {i \in 1..(Len(q) + 1 - Len(ws)) : SubSeq(q, i, i + Len(ws) - 1) = ws} IN
  IF hits = {} THEN 0 ELSE CHOOSE i \in hits : \A j \in hits : i <= j

\* parse_temporal_expression: the DateRange (with the span re.search matched,
\* `at` and `len`), or None (found = FALSE).
parse_temporal_expression(q, ref) ==
  LET At(i) == IF i \in DOMAIN q THEN q[i] ELSE ""
      DateRange(start, end, expression, at) ==
        [found |-> TRUE, start |-> start, end |-> end, expression |-> expression,
         at |-> at, len |-> Len(expression)]
      Word(ws) == DateRange(ref, ref, ws, Find(q, ws))
      \* the first item of the dict whose name stands in q after `lead`
      FirstKey(items, lead) ==
        LET found == {n \in DOMAIN items : Find(q, lead \o <<items[n][1]>>) > 0} IN
        IF found = {} THEN 0 ELSE CHOOSE n \in found : \A k \in found : n <= k
      ndays == {i \in DOMAIN q : /\ q[i] \in {"past", "last"}
                                 /\ Number(At(i + 1)) >= 0
                                 /\ At(i + 2) \in {"day", "days"}}
      nd == CHOOSE i \in ndays : \A j \in ndays : i <= j
      monday == Minus(ref, weekday(ref))
      first == [ref EXCEPT !.d = 1]
      mo == FirstKey(MONTHS, <<>>)
      ld == FirstKey(DAYS_OF_WEEK, <<"last">>)
      od == FirstKey(DAYS_OF_WEEK, <<"on">>)
      \* the first "<name> <day>" of month item n, 0 if none
      MonthDay(n) ==
        LET hits == {i \in DOMAIN q : q[i] = MONTHS[n][1] /\ Number(At(i + 1)) >= 0} IN
        IF hits = {} THEN 0 ELSE CHOOSE i \in hits : \A j \in hits : i <= j
      \* datetime(year, month, day) does not raise ValueError
      mdays == {n \in DOMAIN MONTHS :
                  /\ MonthDay(n) > 0
                  /\ Number(q[MonthDay(n) + 1]) \in 1..DaysInMonth(ref.y, MONTHS[n][2])}
      md == CHOOSE n \in mdays : \A k \in mdays : n <= k IN
  CASE Find(q, <<"today">>) > 0 -> Word(<<"today">>)
    [] Find(q, <<"today">>) = 0 /\ Find(q, <<"yesterday">>) > 0 ->
         [Word(<<"yesterday">>) EXCEPT !.start = Minus(ref, 1), !.end = Minus(ref, 1)]
    [] OTHER ->
  CASE Find(q, <<"this", "week">>) > 0 ->
         [Word(<<"this", "week">>) EXCEPT !.start = monday]
    [] Find(q, <<"this", "week">>) = 0 /\ Find(q, <<"last", "week">>) > 0 ->
         [Word(<<"last", "week">>) EXCEPT
            !.start = Minus(monday, 7), !.end = Minus(monday, 1)]
    [] OTHER ->
  CASE ndays # {} ->
         DateRange(Minus(ref, Number(q[nd + 1])), ref,
                   <<"last", q[nd + 1], "days">>, nd)
    [] ndays = {} /\ Find(q, <<"this", "month">>) > 0 ->
         [Word(<<"this", "month">>) EXCEPT !.start = first]
    [] OTHER ->
  CASE Find(q, <<"last", "month">>) > 0 ->
         [Word(<<"last", "month">>) EXCEPT
            !.start = [Minus(first, 1) EXCEPT !.d = 1], !.end = Minus(first, 1)]
    [] Find(q, <<"last", "month">>) = 0 /\ mo > 0 ->
         LET month_num == MONTHS[mo][2]
             year == IF month_num > ref.m THEN ref.y - 1 ELSE ref.y IN
         DateRange([y |-> year, m |-> month_num, d |-> 1],
                   [y |-> year, m |-> month_num, d |-> DaysInMonth(year, month_num)],
                   <<MONTHS[mo][1]>>, Find(q, <<MONTHS[mo][1]>>))
    [] OTHER ->
  CASE ld > 0 ->
         LET target == Minus(ref, DaysAgo(weekday(ref), DAYS_OF_WEEK[ld][2])) IN
         [Word(<<"last", DAYS_OF_WEEK[ld][1]>>) EXCEPT !.start = target, !.end = target]
    [] ld = 0 /\ od > 0 ->
         LET target == Minus(ref, (weekday(ref) - DAYS_OF_WEEK[od][2]) % 7) IN
         [Word(<<"on", DAYS_OF_WEEK[od][1]>>) EXCEPT !.start = target, !.end = target]
    [] OTHER ->
  CASE Find(q, <<"2026-01-02">>) > 0 ->
         LET date == [y |-> 2026, m |-> 1, d |-> 2] IN
         [Word(<<"2026-01-02">>) EXCEPT !.start = date, !.end = date]
    [] Find(q, <<"2026-01-02">>) = 0 /\ mdays # {} ->
         LET at == MonthDay(md)
             this == [y |-> ref.y, m |-> MONTHS[md][2], d |-> Number(q[at + 1])]
             target == IF ToOrdinal(this) > ToOrdinal(ref)
                       THEN [this EXCEPT !.y = ref.y - 1] ELSE this IN
         DateRange(target, target, <<MONTHS[md][1], q[at + 1]>>, at)
    [] OTHER -> [found |-> FALSE]

\* re.sub(pattern, '', cleaned) for the n-th pattern of patterns_to_remove:
\* the words of q from position i on, without the matches of the pattern
\* (optional groups are taken when they fit).
RECURSIVE RemoveAll(_, _, _)
RemoveAll(n, q, i) ==
  LET At(k) == IF k \in DOMAIN q THEN q[k] ELSE ""
      w1 == At(i)
      w2 == At(i + 1)
      w3 == At(i + 2)
      full == {"january", "february", "march", "april", "may", "june", "july",
               "august", "september", "october", "november", "december"}
      abbr == {"jan", "feb", "mar", "apr", "may", "jun", "jul", "aug", "sep",
               "sept", "oct", "nov", "dec"}
      days == {"monday", "tuesday", "wednesday", "thursday", "friday",
               "saturday", "sunday"}
      Two(a, b) == IF w1 = a /\ w2 = b THEN 2 ELSE 0
      WithYear(ok, len, next) ==
        IF ~ok THEN 0 ELSE IF next \in {"2025", "2026"} THEN len + 1 ELSE len
      match ==
        CASE n = 1 -> IF w1 = "from" /\ w2 = "this" /\ w3 = "week" THEN 3 ELSE 0
          [] n = 2 -> Two("this", "week")
          [] n = 3 -> Two("last", "week")
          [] n = 4 -> Two("this", "month")
          [] n = 5 -> Two("last", "month")
          [] n = 6 -> IF w1 = "today" THEN 1 ELSE 0
          [] n = 7 -> IF w1 = "yesterday" THEN 1 ELSE 0
          [] n = 8 -> IF /\ w1 \in {"past", "last"} /\ Number(w2) >= 0
                         /\ w3 \in {"day", "days"}
                      THEN 3 ELSE 0
          [] n = 9 -> IF w1 = "last" /\ w2 \in days THEN 2 ELSE 0
          [] n = 10 -> IF w1 = "on" /\ w2 \in days THEN 2 ELSE 0
          [] n = 11 -> WithYear(w1 = "in" /\ w2 \in full, 2, w3)
          [] n = 12 -> WithYear(w1 = "from" /\ w2 \in full \cup abbr, 2, w3)
          [] n = 13 -> WithYear(w1 \in full, 1, w2)
          [] n = 14 -> WithYear(w1 \in abbr, 1, w2)
          [] n = 15 -> WithYear(w1 \in abbr /\ Number(w2) >= 0, 2, w3)
          [] OTHER -> IF w1 = "2026-01-02" THEN 1 ELSE 0 IN
  IF i > Len(q) THEN <<>>
  ELSE IF match > 0 THEN RemoveAll(n, q, i + match)
  ELSE <<q[i]>> \o RemoveAll(n, q, i + 1)

\* extract_query_without_temporal: every pattern of the list is removed, one
\* after the other, and the whitespace collapsed.
extract_query_without_temporal(query, date_range) ==
  LET R(n, q) == RemoveAll(n, q, 1) IN
  IF ~date_range.found THEN query
  ELSE R(16, R(15, R(14, R(13, R(12, R(11, R(10, R(9, R(8, R(7, R(6, R(5, R(4,
       R(3, R(2, R(1, query))))))))))))))))

\* hybrid_search lines 276-285: the query is parsed against today's date and
\* cleaned.
Parse ==
  /\ calc.fn = "parse"
  /\ LET date_range == parse_temporal_expression(calc.query, calc.ref) IN
     calc' = [fn |-> "parsed", query |-> calc.query, ref |-> calc.ref,
              date_range |-> date_range,
              search_query |-> extract_query_without_temporal(calc.query, date_range)]
  /\ UNCHANGED <<indexVars, jobVars, cancel_requested, cancels, fts_index, pdf_enabled, search>>

(* --------------------------- query classifier ------------------------- *)
\* A query is a string; a string is a sequence of characters (Len, SubSeq
\* and \o apply to it).

\* COMMON_WORDS, lines 28-55 (the acronyms are left out: a lowercased token
\* never equals one of them)
COMMON_WORDS ==
  {"the", "a", "an", "and", "or", "but", "in", "on", "at", "to", "for", "of",
   "with", "by", "from", "as", "is", "was", "are", "were", "been", "be",
   "have", "has", "had", "do", "does", "did", "will", "would", "could",
   "should", "may", "might", "must", "shall", "can", "need", "dare", "ought",
   "used", "what", "who", "which", "when", "where", "why", "how", "all",
   "each", "every", "both", "few", "more", "most", "other", "some", "such",
   "no", "nor", "not", "only", "own", "same", "so", "than", "too", "very",
   "just", "also", "now", "here", "there", "then", "once", "about", "after",
   "before", "between", "into", "through", "during", "above", "below",
   "meeting", "meetings", "one-on-one", "1:1", "prep", "prepare", "notes",
   "summary", "action", "items", "discussion", "talked", "discussed", "said",
   "mentioned", "topic", "topics", "project", "team", "work", "update",
   "weekly", "daily", "monthly", "review", "feedback", "performance",
   "january", "february", "march", "april", "june", "july", "august",
   "september", "october", "november", "december", "jan", "feb", "mar", "apr",
   "jun", "jul", "aug", "sep", "sept", "oct", "nov", "dec", "monday",
   "tuesday", "wednesday", "thursday", "friday", "saturday", "sunday", "mon",
   "tue", "wed", "thu", "fri", "sat", "sun", "highlights", "overview",
   "report", "analysis"}

\* str.lower()
lower(s) ==
  LET upper == "ABCDEFGHIJKLMNOPQRSTUVWXYZ"
      small == "abcdefghijklmnopqrstuvwxyz"
      Low(c) == IF \E k \in 1..26 : SubSeq(upper, k, k) = c
                THEN LET k == CHOOSE k \in 1..26 : SubSeq(upper, k, k) = c IN
                     SubSeq(small, k, k)
                ELSE c
      lo[n \in 0..Len(s)] == IF n = 0 THEN "" ELSE lo[n - 1] \o Low(SubSeq(s, n, n)) IN
  lo[Len(s)]

\* detect_names: the set of the cleaned tokens that look like a name
detect_names(query) ==
  LET Ch(s, i) == SubSeq(s, i, i)
      In(c, alphabet) == \E k \in 1..Len(alphabet) : Ch(alphabet, k) = c
      IsUpper(c) == In(c, "ABCDEFGHIJKLMNOPQRSTUVWXYZ")
      IsLower(c) == In(c, "abcdefghijklmnopqrstuvwxyz")
      IsDigit(c) == In(c, "0123456789")
      IsWord(c) == IsUpper(c) \/ IsLower(c) \/ IsDigit(c) \/ c = "_"
      \* words = query.split()
      starts == {i \in 1..Len(query) :
                   Ch(query, i) # " " /\ (i = 1 \/ Ch(query, i - 1) = " ")}
      Start(n) == CHOOSE i \in starts : Cardinality({j \in starts : j < i}) = n
      End(i) == CHOOSE j \in i..Len(query) :
                  /\ \A k \in i..j : Ch(query, k) # " "
                  /\ j = Len(query) \/ Ch(query, j + 1) = " "
      word(n) == SubSeq(query, Start(n), End(Start(n)))
      \* clean = re.sub(r'[^\w]', '', word)
      Sub(w) ==
        LET cl[n \in 0..Len(w)] ==
              IF n = 0 THEN ""
              ELSE cl[n - 1] \o (IF IsWord(Ch(w, n)) THEN Ch(w, n) ELSE "") IN
        cl[Len(w)]
      IsName(i, clean) ==
        /\ clean # ""
        /\ IsUpper(Ch(clean, 1))
        \* not clean.isupper(): a cased character that is not upper case
        /\ \E k \in 1..Len(clean) : IsLower(Ch(clean, k))
        /\ lower(clean) \notin COMMON_WORDS
        /\ \/ i > 0
           \/ Len(clean) <= 15 /\ ~\E k \in 1..Len(clean) : IsDigit(Ch(clean, k)) IN
  {Sub(word(i)) : i \in {n \in 0..(Cardinality(starts) - 1) : IsName(n, Sub(word(n)))}}

\* has_person_query_intent: a person pattern stands in the lowercased query
\* between word boundaries, or a name is detected.
has_person_query_intent(query) ==
  LET query_lower == lower(query)
      Ch(i) == SubSeq(query_lower, i, i)
      IsWord(i) ==
        /\ i \in 1..Len(query_lower)
        /\ \E k \in 1..37 : SubSeq("abcdefghijklmnopqrstuvwxyz0123456789_", k, k) = Ch(i)
      re_search(lit) ==
        \E i \in 1..(Len(query_lower) + 1 - Len(lit)) :
          /\ SubSeq(query_lower, i, i + Len(lit) - 1) = lit
          /\ ~IsWord(i - 1)
          /\ ~IsWord(i + Len(lit))
      person_patterns ==
        {"1:1", "one-on-one", "one on one", "one-on one", "one on-one",
         "meeting with", "prep for", "prepare for", "catch up with", "sync with"} IN
  \/ \E lit \in person_patterns : re_search(lit)
  \/ detect_names(query) # {}

\* The BM25 query is the full query whatever the classifier finds.
Bm25QueryFull(search_query, names, is_person_query) == search_query

\* hybrid_search lines 292-296: " ".join(detected_names) for a person query
\* with names, the names in the order `names` in which the set is iterated.
Bm25Query(search_query, names, is_person_query) ==
  LET join[n \in 0..Len(names)] ==
        IF n = 0 THEN ""
        ELSE IF n = 1 THEN names[1]
        ELSE join[n - 1] \o " " \o names[n] IN
  IF is_person_query /\ Len(names) > 0 THEN join[Len(names)] ELSE search_query

\* hybrid_search lines 287-296 on the cleaned query. The order in which a
\* set of strings is iterated is not fixed by the language (it follows the
\* string hashes, seeded per process): any order. A query that has been
\* classified may be submitted again.
Classify ==
  /\ calc.fn \in {"classify", "classified"}
  /\ LET detected_names == detect_names(calc.query)
         is_person_query ==
           has_person_query_intent(calc.query) \/ Cardinality(detected_names) > 0 IN
     \E names \in [1..Cardinality(detected_names) -> detected_names] :
       /\ \A i, j \in DOMAIN names : names[i] = names[j] => i = j
       /\ calc' = [fn |-> "classified", query |-> calc.query,
                   detected_names |-> detected_names,
                   is_person_query |-> is_person_query,
                   bm25_query |-> Bm25Query(calc.query, names, is_person_query)]
  /\ UNCHANGED <<indexVars, jobVars, cancel_requested, cancels, fts_index, pdf_enabled, search>>

(* ------------------------------ PDF chunking -------------------------- *)
\* _chunk_pdf_pages_sync: `pages` is the sequence of the page texts, stripped
\* and not empty (_extract_pdf_pages_sync), the page number of pages[n] is n.
chunk_pdf_pages(pages, chunk_size, chunk_overlap) ==
  LET Ch(t, i) == SubSeq(t, i, i)
      White(c) == c \in {" ", "\n"}
      strip(t) ==
        LET inner == {i \in 1..Len(t) : ~White(Ch(t, i))} IN
        IF inner = {} THEN ""
        ELSE SubSeq(t, CHOOSE i \in inner : \A j \in inner : i <= j,
                       CHOOSE i \in inner : \A j \in inner : i >= j)
      Chunk(st) == [chunk_index |-> Len(st.chunks), content |-> strip(st.current_chunk),
                    page_number |-> st.current_page]
      \* current_chunk[-overlap_chars:], which is the whole string for -0
      Tail_(t, overlap_chars) ==
        IF overlap_chars = 0 THEN t ELSE SubSeq(t, Len(t) - overlap_chars + 1, Len(t))
      Min(a, b) == IF a < b THEN a ELSE b
      loop[n \in 0..Len(pages)] ==
        IF n = 0 THEN [chunks |-> <<>>, current_chunk |-> "", current_page |-> 1]
        ELSE LET st == loop[n - 1]
                 page_text == pages[n] IN
             IF /\ st.current_chunk # ""
                /\ Len(st.current_chunk) + Len(page_text) > chunk_size * 4
             THEN [chunks |-> Append(st.chunks, Chunk(st)),
                   current_chunk |->
                     Tail_(st.current_chunk, Min(chunk_overlap * 4, Len(st.current_chunk)))
                       \o "\n\n" \o page_text,
                   current_page |-> n]
             ELSE [chunks |-> st.chunks,
                   current_chunk |-> IF st.current_chunk # ""
                                     THEN st.current_chunk \o "\n\n" \o page_text
                                     ELSE page_text,
                   current_page |-> IF st.current_chunk = "" THEN n ELSE st.current_page]
      last == loop[Len(pages)] IN
  IF strip(last.current_chunk) # "" THEN Append(last.chunks, Chunk(last)) ELSE last.chunks

\* index_pdf_file lines 426-427: the pages of a PDF are chunked under the
\* configured chunk_size and chunk_overlap.
ChunkPdf ==
  /\ calc.fn = "chunk"
  /\ calc' = [fn |-> "chunked", pages |-> calc.pages, chunk_size |-> calc.chunk_size,
              chunk_overlap |-> calc.chunk_overlap,
              chunks |-> chunk_pdf_pages(calc.pages, calc.chunk_size, calc.chunk_overlap)]
  /\ UNCHANGED <<indexVars, jobVars, cancel_requested, cancels, fts_index, pdf_enabled, search>>

(* ------------------------------ the system ---------------------------- *)
Init ==
  /\ disk = [p \in Paths |-> [content |-> Absent, mtime |-> 0]]
  /\ fsOps = 0
  /\ clock = 1
  /\ table = <<>>
  /\ fts = [p \in Paths |-> NoHash]
  /\ embedding_cache = {}
  /\ cancel_requested = FALSE
  /\ runs = [r \in Runners |-> IdleRun]
  /\ runsStarted = 0
  /\ jobs = [j \in {} |-> NewJob(FALSE, FALSE, FALSE)]
  /\ tasks = [j \in {} |-> 0]
  /\ cancels = 0
  /\ faults = 0
  /\ fts_index = TRUE
  /\ search = IdleSearch
  /\ pdf_enabled = TRUE
  /\ calc = NoCalc

RunStep(r) ==
  \/ \E full \in BOOLEAN : StartRun(r, full)
  \/ Listing(r)
  \/ MdLoop(r)
  \/ HashRead(r)
  \/ \E ftsOk, addOk \in BOOLEAN : Reading(r, ftsOk, addOk)
  \/ \E ok, ftsOk, addOk \in BOOLEAN : EmbedReturn(r, ok, ftsOk, addOk)
  \/ ListPdf(r)
  \/ PdfLoop(r)
  \/ Respond(r)

FsStep ==
  \/ \E p \in Paths : \E content \in ContentsOf(p) : \E dt \in {1, 2} :
       FsWrite(p, content, dt)
  \/ \E p \in Paths : FsDelete(p)

JobStep ==
  \/ \E full, callback_url, use_gpu \in BOOLEAN :
       StartIndexing(full, callback_url, use_gpu)
  \/ \E job_id \in DOMAIN jobs : JobBegin(job_id)
  \/ \E job_id \in DOMAIN jobs : \E gpu_ready \in BOOLEAN : JobWake(job_id, gpu_ready)
  \/ \E job_id \in DOMAIN jobs : \E ok \in BOOLEAN : JobCallback(job_id, ok)

CancelStep == \E job_id \in DOMAIN jobs : CancelJob(job_id)

\* The job controller alone.
JobNext == JobStep \/ CancelStep

SpecJobs == Init /\ [][JobNext]_vars

\* One POST /index at a time, with the vault changing between runs; jobs are
\* submitted with the default request body and cancelled, but not yet run.
SubmitStep == StartIndexing(FALSE, FALSE, TRUE)

IndexNext == RunStep("r1") \/ FsStep \/ SubmitStep \/ CancelStep

SpecIndex == Init /\ [][IndexNext]_vars

\* The dates, filters and limits of the search requests.
SearchRanges == {NoRange, [start |-> 1, end |-> 3], [start |-> 3, end |-> 5]}
SearchDates == {NoDate, 3}
SearchCategories == {NoFilter, "meetings", "papers"}
SearchPersons == {NoFilter, "Nikhil", "Nik"}
SearchLimits == {1, 3}

SearchStep ==
  \/ \E range \in SearchRanges : \E category \in SearchCategories :
     \E person \in SearchPersons : \E date_from, date_to \in SearchDates :
     \E names \in {{}, {"Nikhil"}} : \E intent \in BOOLEAN :
     \E limit \in SearchLimits : \E embedOk \in BOOLEAN :
     \E mode \in {"hybrid", "query"} :
       HybridSearch(mode, range, category, person, date_from, date_to, names,
                    intent, limit, embedOk)
  \/ \E ok, tableOk, reversed \in BOOLEAN : \E promote \in 0..2 :
       QueryEmbedded(ok, tableOk, reversed, promote)
  \/ SearchDone

\* The indices after a clean full reindex of the vault `d`, file by file:
\* the vector table, and the keyword rows if there is an FTS index.
RECURSIVE IndexedTable(_, _)
IndexedTable(d, order) ==
  IF order = <<>> THEN <<>>
  ELSE LET p == order[Len(order)]
           t == IndexedTable(d, SubSeq(order, 1, Len(order) - 1))
           content == d[p].content
           chunks == Chunks(content) IN
       IF ~Ingestible(p, content) THEN t
       ELSE DeleteByHash(t, MD5(content)) \o
            [i \in 1..Len(chunks) |-> ChunkRecord(p, content, i - 1, d[p].mtime)]

IndexedFts(d, present) ==
  [p \in Paths |->
     IF present /\ Ingestible(p, d[p].content)
     THEN MD5(FtsContent(p, d[p].content))
     ELSE NoHash]

\* The server with an indexed vault, answering hybrid searches; lifespan has
\* built the FTS index or, on an error, left it None.
InitSearch ==
  /\ \E d \in [Paths -> [content : MdContents \cup PdfContents \cup {Absent},
                         mtime : {1}]] :
       /\ \A p \in Paths : d[p].content \in ContentsOf(p) \cup {Absent}
       /\ disk = d
       /\ \E present \in BOOLEAN :
            /\ fts_index = present
            /\ table = IndexedTable(d, MdOrder \o PdfOrder)
            /\ fts = IndexedFts(d, present)
  /\ fsOps = 0
  /\ clock = 2
  /\ embedding_cache = {}
  /\ cancel_requested = FALSE
  /\ runs = [r \in Runners |-> IdleRun]
  /\ runsStarted = 0
  /\ jobs = [j \in {} |-> NewJob(FALSE, FALSE, FALSE)]
  /\ tasks = [j \in {} |-> 0]
  /\ cancels = 0
  /\ faults = 0
  /\ search = IdleSearch
  /\ pdf_enabled = TRUE
  /\ calc = NoCalc

SpecSearch == InitSearch /\ [][SearchStep]_vars

\* The server with an indexed vault and an FTS index: files are deleted and
\* POST /index runs the incremental reindex.
InitIndexed == InitSearch /\ fts_index

DeleteNext ==
  \/ \E p \in Paths : FsDelete(p)
  \/ StartRun("r1", FALSE)
  \/ Listing("r1")
  \/ MdLoop("r1")
  \/ \E ftsOk, addOk \in BOOLEAN : Reading("r1", ftsOk, addOk)
  \/ \E ok, ftsOk, addOk \in BOOLEAN : EmbedReturn("r1", ok, ftsOk, addOk)
  \/ PdfLoop("r1")
  \/ Respond("r1")

SpecDelete == InitIndexed /\ [][DeleteNext]_vars

\* The server with an indexed vault: a full reindex runs while vector
\* searches are answered.
ReadersNext ==
  \/ StartRun("r1", TRUE)
  \/ Listing("r1")
  \/ MdLoop("r1")
  \/ \E ftsOk, addOk \in BOOLEAN : Reading("r1", ftsOk, addOk)
  \/ \E ok, ftsOk, addOk \in BOOLEAN : EmbedReturn("r1", ok, ftsOk, addOk)
  \/ ListPdf("r1")
  \/ PdfLoop("r1")
  \/ Respond("r1")
  \/ HybridSearch("vector", NoRange, NoFilter, NoFilter, NoDate, NoDate, {}, FALSE, 3, TRUE)
  \/ \E ok, tableOk \in BOOLEAN : QueryEmbedded(ok, tableOk, FALSE, 0)
  \/ SearchDone

SpecReaders == InitIndexed /\ [][ReadersNext]_vars

\* The server started over a vault that is not indexed yet, or that an
\* earlier process with PDF support has indexed; PDF support is on or off.
InitVault ==
  /\ \E d \in [Paths -> [content : MdContents \cup PdfContents \cup {Absent},
                         mtime : {1}]] :
       /\ \A p \in Paths : d[p].content \in ContentsOf(p) \cup {Absent}
       /\ disk = d
       /\ \E indexed \in BOOLEAN :
            /\ table = IF indexed THEN IndexedTable(d, MdOrder \o PdfOrder) ELSE <<>>
            /\ fts = IndexedFts(d, indexed)
  /\ pdf_enabled \in BOOLEAN
  /\ fts_index = TRUE
  /\ fsOps = 0
  /\ clock = 2
  /\ embedding_cache = {}
  /\ cancel_requested = FALSE
  /\ runs = [r \in Runners |-> IdleRun]
  /\ runsStarted = 0
  /\ jobs = [j \in {} |-> NewJob(FALSE, FALSE, FALSE)]
  /\ tasks = [j \in {} |-> 0]
  /\ cancels = 0
  /\ faults = 0
  /\ search = IdleSearch
  /\ calc = NoCalc

\* POST /index again and again, one request at a time, on a vault that does
\* not change.  The event loop runs every coroutine that is ready, and the
\* client goes on sending requests.
RetryNext ==
  \/ \E full \in BOOLEAN : StartRun("r1", full)
  \/ Rerun("r1")
  \/ Listing("r1")
  \/ MdLoop("r1")
  \/ \E ftsOk, addOk \in BOOLEAN : Reading("r1", ftsOk, addOk)
  \/ \E ok, ftsOk, addOk \in BOOLEAN : EmbedReturn("r1", ok, ftsOk, addOk)
  \/ ListPdf("r1")
  \/ PdfLoop("r1")
  \/ Respond("r1")

SpecRetry == InitVault /\ [][RetryNext]_vars /\ WF_vars(RetryNext)

\* Two POST /index requests at a time on the same vault: their coroutines
\* interleave at every await.
SpecConcurrent ==
  InitVault /\ [][\E r \in Runners :
                    \/ \E full \in BOOLEAN : StartRun(r, full)
                    \/ Listing(r)
                    \/ MdLoop(r)
                    \/ \E ftsOk, addOk \in BOOLEAN : Reading(r, ftsOk, addOk)
                    \/ \E ok, ftsOk, addOk \in BOOLEAN : EmbedReturn(r, ok, ftsOk, addOk)
                    \/ ListPdf(r)
                    \/ PdfLoop(r)
                    \/ Respond(r)]_vars

\* The pure functions of the search path, applied to arguments of a bounded
\* size: the fusion to one or two ranked lists of up to MaxListLen hits, the
\* temporal parser to queries of one or two temporal expressions among other
\* words, on each of the MaxRefDays days up to 2026-01-07, the classifier to
\* queries of up to MaxWords words separated by one or two spaces, the PDF
\* chunker to up to MaxPages pages of 1, 3 or 5 characters, each page with a
\* letter of its own, under a chunk size of 1 or 2 and an overlap of 0 or 1.
InitPure ==
  /\ LET ranked == {RankedList(paths) :
                     paths \in UNION {[1..n -> {"A", "B", "C", "D"}] : n \in 0..MaxListLen}}
         months == {MONTHS[n][1] : n \in DOMAIN MONTHS}
         days == {DAYS_OF_WEEK[n][1] : n \in DOMAIN DAYS_OF_WEEK}
         exprs == {<<>>, <<"today">>, <<"yesterday">>, <<"this", "week">>,
                   <<"last", "week">>, <<"this", "month">>, <<"last", "month">>,
                   <<"past", "7", "days">>, <<"last", "30", "days">>,
                   <<"2026-01-02">>, <<"in", "january">>, <<"from", "feb">>,
                   <<"from", "this", "week">>, <<"in", "march", "2026">>}
                  \cup {<<w>> : w \in months}
                  \cup {<<w, n>> : w \in {"jan", "feb", "february", "dec"},
                                   n \in {"10", "29", "30"}}
                  \cup {<<"last", w>> : w \in days}
                  \cup {<<"on", w>> : w \in days}
         vocabulary == {"Nikhil", "Nikhil,", "Arnab", "API", "The", "with",
                        "meeting", "sync", "1:1", "one-on-one", "January",
                        "Q3plan", "Abcdefghijklmnopq", "notes"} IN
     \/ \E l1 \in ranked : \E l2 \in ranked : \E n \in {1, 2} :
          calc = [fn |-> "fuse", lists |-> Take(<<l1, l2>>, n)]
     \/ \E pre \in {<<>>, <<"notes">>} : \E e \in exprs :
        \E post \in {<<>>, <<"budget">>, <<"today">>, <<"last", "week">>} :
        \E k \in 0..(MaxRefDays - 1) :
          calc = [fn |-> "parse", query |-> pre \o e \o post,
                  ref |-> Minus([y |-> 2026, m |-> 1, d |-> 7], k)]
     \/ \E n \in 1..MaxWords : \E words \in [1..n -> vocabulary] :
        \E sep \in {" ", "  "} :
          calc = [fn |-> "classify",
                  query |-> words[1]
                            \o (IF n > 1 THEN sep \o words[2] ELSE "")
                            \o (IF n > 2 THEN " " \o words[3] ELSE "")]
     \/ \E n \in 1..MaxPages :
        \E pages \in [1..n -> {<<1, 1>>, <<3, 3>>, <<5, 5>>}] :
        \E chunk_size \in {1, 2} : \E chunk_overlap \in {0, 1} :
          LET text == <<"aaaaa", "bbbbb", "ccccc">> IN
          calc = [fn |-> "chunk",
                  pages |-> [k \in 1..n |-> SubSeq(text[k], 1, pages[k][1])],
                  chunk_size |-> chunk_size, chunk_overlap |-> chunk_overlap]
  /\ disk = [p \in Paths |-> [content |-> Absent, mtime |-> 0]]
  /\ fsOps = 0
  /\ clock = 1
  /\ table = <<>>
  /\ fts = [p \in Paths |-> NoHash]
  /\ embedding_cache = {}
  /\ cancel_requested = FALSE
  /\ runs = [r \in Runners |-> IdleRun]
  /\ runsStarted = 0
  /\ jobs = [j \in {} |-> NewJob(FALSE, FALSE, FALSE)]
  /\ tasks = [j \in {} |-> 0]
  /\ cancels = 0
  /\ faults = 0
  /\ fts_index = TRUE
  /\ search = IdleSearch
  /\ pdf_enabled = TRUE

SpecPure == InitPure /\ [][Fuse \/ Parse \/ Classify \/ ChunkPdf]_vars

\* The whole server.
Next ==
  JobStep \/ CancelStep \/ FsStep \/ SearchStep \/ \E r \in Runners : RunStep(r)

Spec == Init /\ [][Next]_vars

(* ------------------------------ properties ---------------------------- *)
Terminal == {COMPLETED, FAILED}

\* Run r has returned and nothing else has touched the vault or the indices
\* since it started.
CleanReturn(r) ==
  /\ runs[r].pc = "returned"
  /\ ~runs[r].cancelled
  /\ ~runs[r].overlapped

\* No file was changed less than a second after the mtime stored with one of
\* its records (such a change is within the tolerance of tier 1).
MtimesSettled ==
  \A i \in DOMAIN table :
    LET p == table[i].file_path IN
    Present(p) =>
      \/ disk[p].mtime = table[i].mtime
      \/ ~MtimeUnchanged(disk[p].mtime, table[i].mtime)

RecordsOf(p) == {i \in DOMAIN table : table[i].file_path = p}

\* C1: at most one entry of the job table has status running.
C1_AtMostOneRunning ==
  Cardinality({j \in DOMAIN jobs : jobs[j].status = RUNNING}) <= 1

\* C2: after a completed, uncancelled incremental reindex every vector record's
\* file exists on disk and the record carries the hash of the file's current
\* content, so that all records of one path share one file_hash.
C2_RecordsMatchDisk ==
  \A r \in Runners :
    (/\ CleanReturn(r) /\ ~runs[r].full /\ ~runs[r].faulty /\ MtimesSettled
     /\ \A p \in Paths : Present(p) => Ingestible(p, disk[p].content)) =>
      /\ \A i \in DOMAIN table :
           /\ Present(table[i].file_path)
           /\ table[i].file_hash = MD5(disk[table[i].file_path].content)
      /\ \A i, k \in DOMAIN table :
           table[i].file_path = table[k].file_path =>
             table[i].file_hash = table[k].file_hash

\* C3: after an incremental reindex that completes without cancellation or
\* adapter errors, every eligible document on disk has a vector record with
\* its path and the MD5 of its current content.
C3_EligibleIndexed ==
  \A r \in Runners :
    (CleanReturn(r) /\ ~runs[r].full /\ ~runs[r].faulty /\ MtimesSettled) =>
      \A p \in Paths :
        Ingestible(p, disk[p].content) =>
          \E i \in RecordsOf(p) : table[i].file_hash = MD5(disk[p].content)

\* C4: after a reindex (incremental or full) completes, a path that was
\* removed from disk has no record in the vector index or the keyword index.
C4_RemovedPathsGone ==
  \A r \in Runners :
    (CleanReturn(r) /\ ~runs[r].faulty) =>
      \A p \in Paths :
        ~Present(p) => (RecordsOf(p) = {} /\ fts[p] = NoHash)

\* C5: a cancelled reindex returns an indexed-count no greater than the number
\* of chunk records it wrote to the vector index.
C5_CountWithinWritten ==
  \A r \in Runners :
    (runs[r].pc = "returned" /\ runs[r].cancelled) =>
      runs[r].total_indexed <= runs[r].written

\* C6: the statuses assigned to a job are pending, then running, then
\* completed or failed, and nothing after that.
C6_StatusOrder ==
  \A j \in DOMAIN jobs :
    /\ tasks[j].log \in {<<PENDING>>, <<PENDING, RUNNING>>,
                         <<PENDING, RUNNING, COMPLETED>>,
                         <<PENDING, RUNNING, FAILED>>}
    /\ jobs[j].status = tasks[j].log[Len(tasks[j].log)]

C6_Witness ==
  \E j \in DOMAIN jobs :
    /\ tasks[j].log = <<PENDING, RUNNING, FAILED>>
    /\ tasks[j].pc = "done"

\* C7: when the job body raises after the job is marked running, the job is
\* failed with an error string and does not stay running.
C7_RaisedEndsFailed ==
  \A j \in DOMAIN jobs :
    tasks[j].raised => (jobs[j].status = FAILED /\ jobs[j].error # NoError)

\* C8: a job with a callback URL gets exactly one callback POST, attempted
\* only once its status is completed or failed.
C8_OneCallback ==
  \A j \in DOMAIN jobs :
    jobs[j].callback_url =>
      /\ tasks[j].posts <= 1
      /\ (tasks[j].posts = 1 => jobs[j].status \in Terminal)
      /\ (tasks[j].pc \in {"done", "crashed"} => tasks[j].posts = 1)

\* C9: a job whose cancellation was accepted ends completed, never failed,
\* with the partial count in its indexed field.
C9_CancelledJobCompletes ==
  \A j \in DOMAIN jobs :
    (tasks[j].cancel_accepted /\ tasks[j].pc \in {"callback", "done"}) =>
      (jobs[j].status = COMPLETED /\ jobs[j].indexed # NoCount)

\* C10: once a run has observed the cancellation flag (and the flag has not
\* been reset since), it starts no further file, deletes nothing more from an
\* index and calls the embedder no more.
C10_NoWorkAfterCancel ==
  [][\A r \in Runners :
       (runs[r].observed /\ Active(r)) =>
         /\ runs'[r].files_started = runs[r].files_started
         /\ runs'[r].deletes = runs[r].deletes
         /\ runs'[r].embed_calls = runs[r].embed_calls]_vars

C10_Witness ==
  \E r \in Runners :
    /\ runs[r].observed
    /\ runs[r].pc = "md_loop"
    /\ runs[r].md_files # <<>>
    /\ runs[r].embed_calls > 0

\* The run of r follows, with no change of the vault in between, a full
\* reindex that was cancelled after it had written records.
AfterCancelledFull(r) ==
  /\ runs[r].last.kind = "full_cancelled"
  /\ runs[r].last.fsOps = fsOps

\* C11: an uncancelled incremental reindex that follows a cancelled full
\* reindex leaves every eligible document on disk with vector records.
C11_ResumeCoversAll ==
  \A r \in Runners :
    (/\ CleanReturn(r) /\ ~runs[r].full /\ ~runs[r].faulty
     /\ AfterCancelledFull(r)) =>
      \A p \in Paths :
        Ingestible(p, disk[p].content) => RecordsOf(p) # {}

\* Run r wrote records for path p: the table holds a record of p that was not
\* there when the run started.
Ingested(r, p) ==
  \E i \in RecordsOf(p) :
    \A k \in DOMAIN runs[r].before.table : runs[r].before.table[k] # table[i]

\* C12: after a successful ingest of a file, its keyword record and all its
\* vector records carry the same file_hash.
C12_SameHashInBothIndices ==
  \A r \in Runners :
    (CleanReturn(r) /\ ~runs[r].faulty) =>
      \A p \in Paths :
        Ingested(r, p) =>
          \A i \in RecordsOf(p) : table[i].file_hash = fts[p]

\* The number of rows of the keyword index.
KeywordCount(f) == Cardinality({p \in Paths : f[p] # NoHash})

\* The run of r follows, with no change of the vault in between, an
\* incremental reindex that completed.
AfterCleanIncremental(r) ==
  /\ runs[r].last.kind = "incr_clean"
  /\ runs[r].last.fsOps = fsOps

\* C13: a second incremental reindex with no filesystem change in between
\* leaves the record counts of both indices unchanged and calls the embedder
\* not at all.
C13_SecondPassIdle ==
  \A r \in Runners :
    (/\ CleanReturn(r) /\ ~runs[r].full /\ ~runs[r].faulty
     /\ AfterCleanIncremental(r)) =>
      /\ Len(table) = Len(runs[r].before.table)
      /\ KeywordCount(fts) = KeywordCount(runs[r].before.fts)
      /\ runs[r].embed_calls = 0

\* The records path p had in table t.
RecordsIn(t, p) == {i \in DOMAIN t : t[i].file_path = p}

\* When run r started, p was indexed with its current content and its mtime
\* has changed since by more than the tolerance of tier 1.
Touched(r, p) ==
  /\ Present(p)
  /\ RecordsIn(runs[r].before.table, p) # {}
  /\ \A i \in RecordsIn(runs[r].before.table, p) :
       /\ runs[r].before.table[i].file_hash = MD5(disk[p].content)
       /\ ~MtimeUnchanged(disk[p].mtime, runs[r].before.table[i].mtime)

\* When run r started, p was indexed with its current content and mtime.
Untouched(r, p) ==
  /\ Present(p)
  /\ RecordsIn(runs[r].before.table, p) # {}
  /\ \A i \in RecordsIn(runs[r].before.table, p) :
       /\ runs[r].before.table[i].file_hash = MD5(disk[p].content)
       /\ runs[r].before.table[i].mtime = disk[p].mtime

\* The only difference between the vault and the index at the start of run r
\* is the mtime of touched files.
OnlyTouches(r) ==
  /\ \E p \in Paths : Touched(r, p)
  /\ \A p \in Paths :
       \/ Touched(r, p)
       \/ Untouched(r, p)
       \/ ~Present(p) /\ RecordsIn(runs[r].before.table, p) = {}

\* C14: an incremental pass over files whose mtime changed while their
\* content did not (markdown or PDF) calls the embedder not at all, counts
\* nothing, and changes only the stored mtime of their vector records, to the
\* mtime now observed.
C14_TouchRefreshesMtimeOnly ==
  \A r \in Runners :
    (CleanReturn(r) /\ ~runs[r].full /\ ~runs[r].faulty /\ OnlyTouches(r)) =>
      /\ runs[r].embed_calls = 0
      /\ runs[r].total_indexed = 0
      /\ fts = runs[r].before.fts
      /\ Len(table) = Len(runs[r].before.table)
      /\ \A i \in DOMAIN table :
           table[i] = [runs[r].before.table[i] EXCEPT
                         !.mtime = disk[table[i].file_path].mtime]

\* C15: the chunk_index values of the records of each indexed document are
\* exactly 0 .. N-1, with no gaps and no duplicates.
C15_ChunkIndexContiguous ==
  \A p \in Paths :
    RecordsOf(p) # {} =>
      LET N == Cardinality(RecordsOf(p)) IN
      {table[i].chunk_index : i \in RecordsOf(p)} = 0 .. (N - 1)

\* C16: a failure while one document is processed never aborts the reindex:
\* no run ends by raising.
C16_FailureNeverAborts ==
  \A r \in Runners : runs[r].faulty => runs[r].pc # "raised"

\* C17: a hybrid search of which exactly one half fails (the BM25 call or
\* the embedding request of the vector half) does not raise: it raises only
\* when both halves have failed.
C17_OneHalfFailureDegrades ==
  search.pc = "raised" => search.failed = {"bm25", "vector"}

Ranking(fused) == [i \in DOMAIN fused |-> <<fused[i].file_path, fused[i].score>>]

\* C21 (as stated): fusing two ranked lists in either order gives the same
\* items with the same scores in the same order.
C21_FusionCommutes ==
  (calc.fn = "fused" /\ Len(calc.lists) = 2) =>
    Ranking(calc.fused) =
      Ranking(reciprocal_rank_fusion(<<calc.lists[2], calc.lists[1]>>, RrfK))

\* C21 (amended): fusing two ranked lists in either order gives the same
\* items with the same scores, and the same score at every position; items
\* of equal score may change places.
C21_FusionCommutesUpToTies ==
  (calc.fn = "fused" /\ Len(calc.lists) = 2) =>
    LET there == Ranking(calc.fused)
        back == Ranking(reciprocal_rank_fusion(<<calc.lists[2], calc.lists[1]>>, RrfK)) IN
    /\ Len(there) = Len(back)
    /\ {there[i] : i \in DOMAIN there} = {back[i] : i \in DOMAIN back}
    /\ \A i \in DOMAIN there : there[i][2] = back[i][2]

\* Two different non-empty lists that share a document have been fused.
C21_Witness ==
  /\ calc.fn = "fused"
  /\ Len(calc.lists) = 2
  /\ calc.lists[1] # calc.lists[2]
  /\ \E i \in DOMAIN calc.lists[1] : \E j \in DOMAIN calc.lists[2] :
       /\ calc.lists[1][i].file_path = calc.lists[2][j].file_path
       /\ i # j

\* C22: the fusion of a single ranked list whose items have distinct file
\* paths is that list, item by item in the same order.
C22_SingleListUnchanged ==
  LET L == calc.lists[1]
      Item(x) == <<x.file_path, x.chunk_index>> IN
  (/\ calc.fn = "fused"
   /\ Len(calc.lists) = 1
   /\ \A i, j \in DOMAIN L : i # j => L[i].file_path # L[j].file_path) =>
    /\ Len(calc.fused) = Len(L)
    /\ \A i \in DOMAIN L : Item(calc.fused[i]) = Item(L[i])

\* A single list of three different documents has been fused.
C22_Witness ==
  /\ calc.fn = "fused"
  /\ Len(calc.lists) = 1
  /\ Len(calc.lists[1]) = MaxListLen
  /\ Cardinality({calc.lists[1][i].file_path : i \in DOMAIN calc.lists[1]}) = MaxListLen

\* The position of the first hit of path p in the inputs laid end to end.
FirstAppearance(lists, p) == FirstPos(Concat(lists), p)

\* C23: every fused item's score is the sum of 1/(k + rank) over the lists
\* that contain it, the output is ordered by non-increasing score with ties
\* in order of first appearance, and [A,B,C] fused with [B,A,D] is A,B,C,D.
C23_ScoreAndOrder ==
  calc.fn = "fused" =>
    LET out == calc.fused
        Term(L, p) == IF FirstPos(L, p) > 0
                      THEN RrfScale(RrfK) \div (RrfK + FirstPos(L, p)) ELSE 0
        Sum(p) == Term(calc.lists[1], p) +
                  (IF Len(calc.lists) = 2 THEN Term(calc.lists[2], p) ELSE 0) IN
    /\ \A i \in DOMAIN out : out[i].score = Sum(out[i].file_path)
    /\ \A i, j \in DOMAIN out : i < j =>
         \/ out[i].score > out[j].score
         \/ /\ out[i].score = out[j].score
            /\ FirstAppearance(calc.lists, out[i].file_path)
                 < FirstAppearance(calc.lists, out[j].file_path)
    /\ (calc.lists = <<RankedList(<<"A", "B", "C">>), RankedList(<<"B", "A", "D">>)>>
          => [i \in DOMAIN out |-> out[i].file_path] = <<"A", "B", "C", "D">>)

\* The lists [A,B,C] and [B,A,D] have been fused.
C23_Witness ==
  /\ calc.fn = "fused"
  /\ calc.lists = <<RankedList(<<"A", "B", "C">>), RankedList(<<"B", "A", "D">>)>>
  /\ Len(calc.fused) = 4

\* C24: when the expansion returns only the original query, a search in mode
\* "query" returns the same set of hits as the search in mode "hybrid" with
\* the same query, limit and index state.
C24_QueryModeSameHits ==
  (search.pc = "returned" /\ search.mode = "query") =>
    LET hybrid == HybridOutput(search.bm25_results, search.vector_results,
                               search.is_person_query, search.limit) IN
    {search.results[i].file_path : i \in DOMAIN search.results} =
      {hybrid[i].file_path : i \in DOMAIN hybrid}

\* The files that were in an index when run r started and are not on disk.
Removed(r) ==
  {p \in Paths :
     /\ ~Present(p)
     /\ RecordsIn(runs[r].before.table, p) # {} \/ runs[r].before.fts[p] # NoHash}

\* C25: an incremental reindex after files were deleted, with no other
\* change, removes the records of the deleted files from both indices and
\* nothing else: the records of the remaining files are unchanged, the
\* keyword-record count drops by the number of deleted files, and the run
\* reports 0 files indexed.
C25_DeletionsOnly ==
  \A r \in Runners :
    (CleanReturn(r) /\ ~runs[r].full /\ ~runs[r].faulty /\ Removed(r) # {}) =>
      /\ table = SelectSeq(runs[r].before.table,
                           LAMBDA rec : rec.file_path \notin Removed(r))
      /\ fts = [p \in Paths |->
                  IF p \in Removed(r) THEN NoHash ELSE runs[r].before.fts[p]]
      /\ KeywordCount(fts) = KeywordCount(runs[r].before.fts) - Cardinality(Removed(r))
      /\ runs[r].total_indexed = 0

OnlyExpression(q, i, expr) ==
  /\ i + Len(expr) - 1 <= Len(q)
  /\ SubSeq(q, i, i + Len(expr) - 1) = expr
  /\ \A j \in DOMAIN q : (j < i \/ j >= i + Len(expr)) => q[j] \in {"notes", "budget"}

\* C27: a query with a month name followed by a day number is parsed to the
\* single day of that month in the reference year, or in the year before if
\* that day is after the reference date.
C27_MonthDaySingleDay ==
  calc.fn = "parsed" =>
    \A i \in DOMAIN calc.query :
      \A n \in DOMAIN MONTHS : \A day \in {"10", "30"} :
        (/\ OnlyExpression(calc.query, i, <<MONTHS[n][1], day>>)
         /\ Number(day) <= DaysInMonth(calc.ref.y, MONTHS[n][2])) =>
          LET this == [y |-> calc.ref.y, m |-> MONTHS[n][2], d |-> Number(day)]
              target == IF ToOrdinal(this) > ToOrdinal(calc.ref)
                        THEN [this EXCEPT !.y = calc.ref.y - 1] ELSE this IN
          /\ calc.date_range.found
          /\ calc.date_range.start = target
          /\ calc.date_range.end = target

\* C28: when the parser matches an expression, the cleaned query is the
\* original query without the matched words, and nothing else is removed.
C28_CleanedIsQueryMinusMatch ==
  (calc.fn = "parsed" /\ calc.date_range.found) =>
    LET at == calc.date_range.at
        len == calc.date_range.len IN
    calc.search_query =
      SubSeq(calc.query, 1, at - 1) \o SubSeq(calc.query, at + len, Len(calc.query))

\* C29: "last <weekday>" resolves to a single day that falls on that
\* weekday, 1 to 7 days before the reference date, and 7 days before it when
\* the reference date falls on that weekday.
C29_LastWeekday ==
  calc.fn = "parsed" =>
    \A i \in DOMAIN calc.query : \A n \in DOMAIN DAYS_OF_WEEK :
      OnlyExpression(calc.query, i, <<"last", DAYS_OF_WEEK[n][1]>>) =>
        LET ago == ToOrdinal(calc.ref) - ToOrdinal(calc.date_range.start) IN
        /\ calc.date_range.found
        /\ calc.date_range.start = calc.date_range.end
        /\ weekday(calc.date_range.start) = DAYS_OF_WEEK[n][2]
        /\ ago \in 1..7
        /\ (weekday(calc.ref) = DAYS_OF_WEEK[n][2] => ago = 7)

\* "last <weekday>" has been parsed on a day that falls on that weekday.
C29_Witness ==
  /\ calc.fn = "parsed"
  /\ \E i \in DOMAIN calc.query : \E n \in DOMAIN DAYS_OF_WEEK :
       /\ OnlyExpression(calc.query, i, <<"last", DAYS_OF_WEEK[n][1]>>)
       /\ weekday(calc.ref) = DAYS_OF_WEEK[n][2]
  /\ calc.date_range.found

\* C30: for a cleaned query with person intent and at least one candidate
\* token, the query submitted to BM25 is the candidate tokens, each once, in
\* some order and joined by single spaces; otherwise it is the full cleaned
\* query.
C30_Bm25QueryIsNames ==
  calc.fn = "classified" =>
    LET names == detect_names(calc.query)
        Joined(order) ==
          LET join[n \in 0..Len(order)] ==
                IF n = 0 THEN ""
                ELSE IF n = 1 THEN order[1]
                ELSE join[n - 1] \o " " \o order[n] IN
          join[Len(order)] IN
    IF has_person_query_intent(calc.query) /\ names # {}
    THEN \E order \in [1..Cardinality(names) -> names] :
           /\ {order[i] : i \in DOMAIN order} = names
           /\ calc.bm25_query = Joined(order)
    ELSE calc.bm25_query = calc.query

\* A query with a person pattern and two names has been classified, and the
\* BM25 query is not the query.
C30_Witness ==
  /\ calc.fn = "classified"
  /\ calc.query = "1:1  Nikhil, Arnab"
  /\ calc.detected_names = {"Nikhil", "Arnab"}
  /\ calc.bm25_query \in {"Nikhil Arnab", "Arnab Nikhil"}

\* C39: the BM25 query is a function of the query text: a second run on the
\* same query submits the same string, with the tokens in the same order.
C39_Bm25QueryDeterministic ==
  [][(calc.fn = "classified" /\ calc'.fn = "classified")
       => calc'.bm25_query = calc.bm25_query]_vars

\* C31: whatever the pages, the chunk size and the overlap, no page's full
\* text is contained in more than one emitted chunk.
C31_PageInOneChunk ==
  calc.fn = "chunked" =>
    \A p \in DOMAIN calc.pages :
      LET Contains(t) == \E i \in 1..(Len(t) + 1 - Len(calc.pages[p])) :
                           SubSeq(t, i, i + Len(calc.pages[p]) - 1) = calc.pages[p] IN
      Cardinality({c \in DOMAIN calc.chunks : Contains(calc.chunks[c].content)}) <= 1

\* C34: with PDF support off, an incremental reindex leaves the records of
\* the indexed PDF files in both indices.
C34_DisabledPdfKept ==
  [][(~pdf_enabled /\ \A r \in Runners : ~runs'[r].full) =>
       \A p \in PdfPaths :
         /\ RecordsIn(table, p) # {} => RecordsIn(table', p) # {}
         /\ fts[p] # NoHash => fts'[p] # NoHash]_vars

\* C32: once the keyword upsert of a document has failed while its vector
\* records were written, incremental reindexes with a healthy keyword index
\* (no further failure) eventually create the document's keyword row, the
\* file staying as it is.
C32_KeywordRowEventually ==
  \A p \in Paths :
    (/\ pdf_enabled
     /\ faults = MaxFaults
     /\ Present(p)
     /\ RecordsIn(table, p) # {}
     /\ fts[p] = NoHash) ~> (fts[p] # NoHash)

\* C33: once a file is stored with some of its chunks missing because their
\* embedding request failed, incremental reindexes with a healthy embedding
\* host (no further failure) eventually store all of its chunks.
C33_MissingChunksEventually ==
  \A p \in Paths :
    (/\ pdf_enabled
     /\ faults = MaxFaults
     /\ Present(p)
     /\ RecordsIn(table, p) # {}
     /\ Cardinality(RecordsIn(table, p)) < Len(Chunks(disk[p].content)))
      ~> (Cardinality(RecordsIn(table, p)) = Len(Chunks(disk[p].content)))

Requested(rs, r) == Chunks(rs[r].content)[rs[r].chunk]

\* C35: the embedding cache only grows; an entry is added only for a text
\* whose request is returning; a step in which an embedding request fails
\* (a failure that writes nothing and does not leave the run) adds no entry;
\* and a run contacts the host only for a text that is not cached.
C35_CacheAdditive ==
  [][/\ embedding_cache \subseteq embedding_cache'
     /\ \A t \in embedding_cache' \ embedding_cache :
          \E r \in Runners : runs[r].pc = "embedding" /\ Requested(runs, r) = t
     /\ \A r \in Runners :
          (/\ runs[r].pc = "embedding"
           /\ runs'[r] # runs[r]
           /\ faults' > faults
           /\ runs'[r].written = runs[r].written
           /\ runs'[r].pc # "raised") => embedding_cache' = embedding_cache
     /\ \A r \in Runners :
          (/\ runs'[r].pc = "embedding"
           /\ runs[r].pc = "embedding" => runs'[r].chunk # runs[r].chunk)
            => Requested(runs', r) \notin embedding_cache]_vars

\* Two concurrent runs wait for the embedding of the same uncached text, and
\* a request has failed before.
C35_Witness ==
  /\ \A r \in Runners : runs[r].pc = "embedding"
  /\ Requested(runs, "r1") = Requested(runs, "r2")
  /\ Requested(runs, "r1") \notin embedding_cache
  /\ faults > 0
  /\ embedding_cache # {}

C37_CancelSparesOtherRuns ==
  \A r \in Runners : ~runs[r].cancelled

====
